---- MODULE Spec2Model ----
(***************************************************************************)
(* A model of the "parallel" package: the Group scheduler (Add, Run,       *)
(* Wait), the per-runner pipelines (head, queue, tagger, tail) and the     *)
(* queue's foreground/background state machine.                            *)
(*                                                                         *)
(* Threads: thread 0 is the goroutine that calls Add, Run and Wait; thread *)
(* r (1..MaxRunners) is the pool goroutine while it executes the RunFunc   *)
(* of runner r.  A byte is an integer; a write is a sequence of bytes.     *)
(***************************************************************************)
EXTENDS Integers, Sequences, FiniteSets, TLC

\* ------------------------------------------------------------------ bounds
\* Add is called at most MaxRunners times.
MaxRunners == 2

\* The RunFuncs of a group issue at most MaxWrites writes, all together.
MaxWrites == 2

\* A write of a RunFunc carries 1..MaxLen bytes.
MaxLen == 2

\* LimitMemoryPerRunner is given 0..MaxMemory.
MaxMemory == 1

\* LimitActiveRunners is given 0..MaxActive.
MaxActive == 2

\* NewGroup is called with at most MaxOpts options.
MaxOpts == 3

\* The byte sequence B written through the tagger has at most MaxBytes bytes.
MaxBytes == 3

\* The tagger is called at most MaxCalls times.
MaxCalls == 3

\* At most MaxFailures downstream writes fail during one Write call.
MaxFailures == 2

\* The chunkBuffer under test holds at most MaxChunks chunks.
MaxChunks == 4

\* At most MaxSinkFailures Write calls of the group sinks fail.
MaxSinkFailures == 1

\* At most MaxQueueWrites Write calls are made on the writers of the queue
\* under test, and at most MaxForegrounds calls of foreground or close.
MaxQueueWrites == 3
MaxForegrounds == 3

\* The LimitMemoryPerRunner of the queue under test is at most MaxQueueLimit.
MaxQueueLimit == 2

\* ------------------------------------------------------------------ values
\* The byte '\n'.
NL == 10

\* The goroutine of the caller of Add, Run and Wait.
Main == 0

\* Nobody holds the mutex; no runner.
NoOne == -1

RunnerIds == 1..MaxRunners
Threads == {Main} \cup RunnerIds

toStdout == "toStdout"
toStderr == "toStderr"
Dests == {toStdout, toStderr}

\* ------------------------------------------------------------------ helpers
RECURSIVE Flatten(_)
\* The bytes of a sequence of byte sequences, in order.
Flatten(ss) == IF ss = <<>> THEN <<>> ELSE Head(ss) \o Flatten(Tail(ss))

RECURSIVE SelectIx(_, _, _)
\* The first index i >= from with s[i] = NL, or Len(s)+1.
SelectIx(s, from, b) ==
    IF from > Len(s) THEN Len(s) + 1
    ELSE IF s[from] = b THEN from ELSE SelectIx(s, from + 1, b)

RECURSIVE Split(_)
\* bytes.Split(p, nl): the segments of p between newlines; n newlines give
\* n+1 segments, the last one empty when p ends with a newline.
Split(p) ==
    LET i == SelectIx(p, 1, NL) IN
    IF i > Len(p) THEN <<p>>
    ELSE <<SubSeq(p, 1, i - 1)>> \o Split(SubSeq(p, i + 1, Len(p)))

\* The payloads a RunFunc may pass to one Write: the identifying byte b, or
\* a line of 2..MaxLen bytes made of b's and a final newline.
Payloads(b) ==
    {[i \in 1..n |-> IF i = n /\ n > 1 THEN NL ELSE b] : n \in 1..MaxLen}

\* The identifying byte of write number w of runner r.
DataByte(r, w) == 100 * r + w

\* The <<outTag, errTag>> pairs Add is called with: "", "" or "o", "e".
Tags == {<<<<>>, <<>>>>, <<<<111>>, <<101>>>>}

\* The <<WithStdoutSeparator, WithStderrSeparator>> values NewGroup is called
\* with: "", "" or "O\n", "E\n".
Separators == {<<<<>>, <<>>>>, <<<<79, NL>>, <<69, NL>>>>}

\* ------------------------------------------------------------ configuration
\* config.checkConflicts without the rule that LimitMemoryPerRunner needs
\* OrderRunners(true).
checkConflictsWithoutOrderRule(c) ==
    \/ /\ c.limitMemory > 0
       /\ \/ c.limitRunners = 0
          \/ c.orderStderr
    \/ /\ c.passthru
       /\ \/ c.limitMemory > 0
          \/ c.orderRunners
          \/ c.orderStderr

\* config.checkConflicts without the rules for Passthru(true).
checkConflictsWithoutPassthruRules(c) ==
    /\ c.limitMemory > 0
    /\ \/ c.limitRunners = 0
       \/ ~c.orderRunners
       \/ c.orderStderr

\* config.checkConflicts without the rule that LimitMemoryPerRunner needs
\* LimitActiveRunners.
checkConflictsWithoutRunnersRule(c) ==
    \/ /\ c.limitMemory > 0
       /\ \/ ~c.orderRunners
          \/ c.orderStderr
    \/ /\ c.passthru
       /\ \/ c.limitMemory > 0
          \/ c.orderRunners
          \/ c.orderStderr

\* config.checkConflicts: TRUE iff it returns an error.
checkConflicts(c) ==
    \/ /\ c.limitMemory > 0
       /\ \/ c.limitRunners = 0
          \/ ~c.orderRunners
          \/ c.orderStderr
    \/ /\ c.passthru
       /\ \/ c.limitMemory > 0
          \/ c.orderRunners
          \/ c.orderStderr

\* config.foregroundAllowed
foregroundAllowed(c) == c.orderRunners /\ ~c.orderStderr /\ ~c.passthru

\* The option values NewGroup can be called with.
Options ==
    [stdout : {"os.Stdout"}, stderr : {"os.Stderr"},
     outSep : {x[1] : x \in Separators}, errSep : {x[2] : x \in Separators},
     limitMemory : 0..MaxMemory, limitRunners : 0..MaxActive,
     orderRunners : BOOLEAN, orderStderr : BOOLEAN, passthru : BOOLEAN]

\* ---------------------------------------------------------------------- state
VARIABLES
    tgr,         \* the tagger under test: tag and tagPending
    unsent,      \* the bytes of B not yet passed to the tagger
    sent,        \* the bytes of B passed to the tagger so far
    emitted,     \* the Write calls the tagger has made downstream, with results
    rets,        \* what each Write call on the tagger was given and returned
    core,        \* the queue core under test
    qpc,         \* qpc[d]: where the goroutine using the writer for d is
    qcur,        \* qcur[d]: the write that goroutine is inside of
    qfg,         \* the goroutine calling foreground: position and calls made
    qlog,        \* the Write calls the writers below the queue have received
    qwritten,    \* the Write calls made on the two queue writers, in order
    buf,         \* the chunkBuffer under test: its chunks
    wtrs,        \* the writers below it: when each fails, the calls made
    tret,        \* the call made on the chunkBuffer and what it returned
    held,        \* held[t]: the mutexes thread t holds, in locking order
    failed,     \* the sink Write calls of a drain that failed
    derr,       \* a sink Write failed in the chunk the drain is writing
    opts,        \* the options NewGroup is called with, in order
    applied,     \* the number of options NewGroup has applied
    nerr,        \* the error NewGroup returns; "pending" until it returns
    called,      \* the last call of Add, Run or Wait and how it ended
    cfg,         \* Group.config
    state,       \* Group.state
    runners,     \* Group.runners: the runner ids in the list, front first
    nAdded,      \* number of runners created by Add; they are 1..nAdded
    nWorkers,    \* number of worker goroutines started by startRunners
    tag,         \* tag[r][d]: runner.outTag / runner.errTag
    canClose,    \* canClose[r]: runner.canClose
    cq,          \* cq[r]: the commonQueue of runner r
    tagPending,  \* tagPending[r][d]: tagger.tagPending of the tagger of r for d
    pc,          \* pc[r]: where the worker goroutine of runner r is
    cur,         \* cur[r]: the write runner r's RunFunc is inside of
    pend,        \* pend[t]: the sink writes thread t still has to do for the
                 \* downstream Write call it is in
    inSink,      \* the threads inside a Write call of a group sink
    outputMu,    \* Group.outputMu: the thread holding it, or NoOne
    mpc,         \* where thread Main is
    mcur,        \* the runner Main is closing or switching to foreground
    mret,        \* where Main continues when foreground() returns
    dpos,        \* where Main is in the drain: transfer call and chunk index
    log,         \* the Write calls the group sinks have received, in order
    written,     \* written[r]: the writes RunFunc r has issued, in order
    received,    \* the runners in the order Wait received them from completed
    overQuota    \* overQuota[r]: the number of the write of r that found the
                 \* buffer over the limit and blocked, 0 if none did

\* The variables of the tagger under test.
taggerVars == <<tgr, unsent, sent, emitted, rets>>

\* The variables of the chunkBuffer under test.
bufferVars == <<buf, wtrs, tret>>

\* The variables of the queue core under test and its two writers.
queueVars == <<core, qpc, qcur, qfg, qlog, qwritten>>

\* The variables of the writers under test, which no operation on a Group
\* touches.
unitVars == <<taggerVars, bufferVars, queueVars>>

\* The variables of a Group, its runners and their pipelines.
groupVars == <<failed, derr, held, opts, applied, nerr, called, cfg, state,
               runners, nAdded, nWorkers, tag, canClose, cq, tagPending, pc,
               cur, pend, inSink, outputMu, mpc, mcur, mret, dpos, log,
               written, received, overQuota>>

vars == <<failed, derr, held, unitVars, opts, applied, nerr, called, cfg,
          state, runners, nAdded, nWorkers, tag, canClose, cq, tagPending, pc,
          cur, pend, inSink, outputMu, mpc, mcur, mret, dpos, log, written,
          received, overQuota>>

groupIsZero == "groupIsZero"
groupIsAdding == "groupIsAdding"
groupIsRunning == "groupIsRunning"
groupIsWaiting == "groupIsWaiting"
groupIsDone == "groupIsDone"

backgroundWithLimit == "backgroundWithLimit"
backgroundNoLimit == "backgroundNoLimit"
blocked == "blocked"
draining == "draining"
foreground == "foreground"

\* runner.queue before buildQueuePipeline, and always in a Passthru pipeline.
nilQueue == [state |-> "nil", orderStderr |-> FALSE, limit |-> 0, used |-> 0,
             chunks |-> <<>>, blockClosed |-> FALSE, locked |-> FALSE]

noWrite == [where |-> toStdout, data |-> <<>>]

\* No call of Add, Run or Wait has been made.
noCall == [op |-> "none", before |-> groupIsZero, panicked |-> FALSE]

\* Main is not in a drain.
noDrain == [pass |-> 0, ix |-> 0]

\* The error value nil.
noError == 0

\* No tagger is under test.
noTagger ==
    /\ tgr = [tag |-> <<>>, tagPending |-> TRUE]
    /\ unsent = <<>>
    /\ sent = <<>>
    /\ emitted = <<>>
    /\ rets = <<>>

\* No chunkBuffer is under test.
noBuffer ==
    /\ buf = <<>>
    /\ wtrs = [failAt |-> [d \in Dests |-> 0], calls |-> <<>>]
    /\ tret = [op |-> "none", err |-> noError, orderStderr |-> FALSE,
               chunks |-> <<>>]

\* No queue is under test.
noQueue ==
    /\ core = nilQueue
    /\ qpc = [d \in Dests |-> "idle"]
    /\ qcur = [d \in Dests |-> noWrite]
    /\ qfg = [pc |-> "idle", pos |-> noDrain, calls |-> 0]
    /\ qlog = <<>>
    /\ qwritten = <<>>

\* No writer is under test on its own.
noUnit == noTagger /\ noBuffer /\ noQueue

\* Nothing has been added, run or written: the variables other than those of
\* NewGroup, as they are before the first call of Add.
emptyGroup ==
    /\ called = noCall
    /\ runners = <<>>
    /\ nAdded = 0
    /\ nWorkers = 0
    /\ tag = [r \in RunnerIds |-> [d \in Dests |-> <<>>]]
    /\ canClose = [r \in RunnerIds |-> FALSE]
    /\ cq = [r \in RunnerIds |-> nilQueue]
    /\ tagPending = [r \in RunnerIds |-> [d \in Dests |-> TRUE]]
    /\ pc = [r \in RunnerIds |-> "todo"]
    /\ cur = [r \in RunnerIds |-> noWrite]
    /\ pend = [t \in Threads |-> <<>>]
    /\ held = [t \in Threads |-> <<>>]
    /\ failed = <<>>
    /\ derr = FALSE
    /\ inSink = {}
    /\ outputMu = NoOne
    /\ mpc = "caller"
    /\ mcur = NoOne
    /\ mret = "caller"
    /\ dpos = noDrain
    /\ log = <<>>
    /\ written = [r \in RunnerIds |-> <<>>]
    /\ received = <<>>
    /\ overQuota = [r \in RunnerIds |-> 0]

\* NewGroup: a Group exists only when no option failed and checkConflicts
\* found nothing, and then it is in groupIsAdding with an empty list.
NewGroup(c) ==
    /\ <<c.outSep, c.errSep>> \in Separators
    /\ ~checkConflicts(c)
    /\ opts = <<>>
    /\ applied = 0
    /\ nerr = "nil"
    /\ cfg = c
    /\ state = groupIsAdding
    /\ emptyGroup
    /\ noUnit

Init == \E c \in Options : NewGroup(c)

\* Group.checkState that only tells a zero-value Group from one made by
\* NewGroup.
checkStateNotZero(expect) == state # groupIsZero

\* Group.checkState: TRUE iff it does not panic.
checkState(expect) == state = expect

\* ------------------------------------------------------------------ Add, Run
\* Group.Add with newRunner.
Add(outTag, errTag) ==
    /\ mpc = "caller"
    /\ checkState(groupIsAdding)
    /\ nAdded < MaxRunners
    /\ nAdded' = nAdded + 1
    /\ runners' = Append(runners, nAdded + 1)
    /\ tag' = [tag EXCEPT ![nAdded + 1] =
                  [d \in Dests |-> IF d = toStdout THEN outTag ELSE errTag]]
    /\ called' = [op |-> "Add", before |-> state, panicked |-> FALSE]
    /\ UNCHANGED <<failed, derr, held, unitVars, opts, applied, nerr, cfg,
                   state, nWorkers, canClose, cq, tagPending, pc, cur, pend,
                   inSink, outputMu, mpc, mcur, mret, dpos, log, written,
                   received, overQuota>>

\* newQueue that starts every queue in backgroundNoLimit.
newQueueNoLimit(orderStderr, limit) ==
    [state |-> backgroundNoLimit,
     orderStderr |-> orderStderr, limit |-> limit, used |-> 0,
     chunks |-> <<>>, blockClosed |-> FALSE, locked |-> FALSE]

\* newQueue: the commonQueue shared by the stdout and the stderr queue writer.
newQueue(orderStderr, limit) ==
    [state |-> IF limit = 0 THEN backgroundNoLimit ELSE backgroundWithLimit,
     orderStderr |-> orderStderr, limit |-> limit, used |-> 0,
     chunks |-> <<>>, blockClosed |-> FALSE, locked |-> FALSE]

\* queue.foreground that returns with the mutex locked.
foregroundDoneStillLocked(q) ==
    [q EXCEPT !.chunks = <<>>, !.state = foreground, !.blockClosed = TRUE]

\* queue.foreground from the end of the drain on: the chunks are released, the
\* state is foreground, block is closed and the mutex is unlocked.
foregroundDone(q) ==
    [q EXCEPT !.chunks = <<>>, !.state = foreground, !.blockClosed = TRUE,
              !.locked = FALSE]

\* runner.buildPassthruPipeline / runner.buildQueuePipeline: the queue of r.
buildPipeline(r) ==
    IF cfg.passthru THEN nilQueue
    ELSE newQueue(cfg.orderStderr, cfg.limitMemory)

\* Group.buildPipelines that switches every runner to foreground.
buildPipelinesAllForeground(r) ==
    IF r > nAdded THEN nilQueue
    ELSE IF ~cfg.passthru /\ foregroundAllowed(cfg)
         THEN foregroundDone(buildPipeline(r))
    ELSE buildPipeline(r)

\* Group.buildPipelines that leaves every runner in the background.
buildPipelinesAllBackground(r) ==
    IF r > nAdded THEN nilQueue ELSE buildPipeline(r)

\* Group.buildPipelines: the queue of every runner after the loop.  The first
\* runner is switched to foreground when that is allowed; nothing is buffered
\* yet, so its drain writes nothing.
buildPipelines(r) ==
    IF r > nAdded THEN nilQueue
    ELSE IF ~cfg.passthru /\ r = 1 /\ foregroundAllowed(cfg)
         THEN foregroundDone(buildPipeline(r))
    ELSE buildPipeline(r)

\* Group.startRunners that starts a worker for every runner whatever the limit.
startRunnersWithoutLimit == nAdded

\* Group.startRunners: the number of workers started.
startRunners == IF cfg.limitRunners = 0 THEN nAdded ELSE cfg.limitRunners

\* Group.Run
Run ==
    /\ mpc = "caller"
    /\ checkState(groupIsAdding)
    /\ state' = groupIsRunning
    /\ cq' = [r \in RunnerIds |-> buildPipelines(r)]
    /\ nWorkers' = startRunners
    /\ called' = [op |-> "Run", before |-> state, panicked |-> FALSE]
    /\ UNCHANGED <<failed, derr, held, unitVars, opts, applied, nerr, cfg,
                   runners, nAdded, tag, canClose, tagPending, pc, cur, pend,
                   inSink, outputMu, mpc, mcur, mret, dpos, log, written,
                   received, overQuota>>

\* ------------------------------------------------------------------ pipeline
\* One Write call on a group sink: sink is the destination, rnr the runner
\* whose pipeline issued it (NoOne for a separator).
SinkWrite(sink, rnr, kind, data) ==
    [sink |-> sink, rnr |-> rnr, kind |-> kind, data |-> data]

RECURSIVE taggerLines(_, _, _, _)
\* tagger.Write, the loop over all but the last line: the downstream writes
\* W2 (tag), W3 (line) and W4 (newline) of lines ix..Len(lines)-1.
taggerLines(tg, pending, lines, ix) ==
    IF ix > Len(lines) - 1 THEN <<>>
    ELSE (IF pending THEN <<[kind |-> "tag", data |-> tg]>> ELSE <<>>)
         \o <<[kind |-> "data", data |-> lines[ix]],
              [kind |-> "data", data |-> <<NL>>]>>
         \o taggerLines(tg, TRUE, lines, ix + 1)

\* tagger.Write that takes a tag to be pending at every call.
taggerWriteAlwaysPending(tg, pending, p) ==
    IF Len(p) = 0 \/ Len(tg) = 0
    THEN [writes |-> IF Len(p) = 0 THEN <<>>
                     ELSE <<[kind |-> "data", data |-> p]>>,
          tagPending |-> pending]
    ELSE [writes |-> <<[kind |-> "tag", data |-> tg],
                       [kind |-> "data", data |-> p]>>,
          tagPending |-> TRUE]

\* tagger.Write(p) of a tagger with tag tg and tagPending = pending: the
\* downstream writes it makes, in order, and tagPending afterwards.
taggerWrite(tg, pending, p) ==
    IF Len(p) = 0 THEN [writes |-> <<>>, tagPending |-> pending]
    ELSE IF Len(tg) = 0
         THEN [writes |-> <<[kind |-> "data", data |-> p]>>,
               tagPending |-> pending]
    ELSE LET lines == Split(p)
             ln == lines[Len(lines)]
             pendingLast == IF Len(lines) > 1 THEN TRUE ELSE pending
         IN  IF Len(ln) > 0
             THEN [writes |-> taggerLines(tg, pending, lines, 1)
                              \o (IF pendingLast
                                  THEN <<[kind |-> "tag", data |-> tg]>>
                                  ELSE <<>>)
                              \o <<[kind |-> "data", data |-> ln]>>,
                   tagPending |-> FALSE]
             ELSE [writes |-> taggerLines(tg, pending, lines, 1),
                   tagPending |-> TRUE]

\* The stages below head (Passthru) or below the queue (queued) of runner r
\* for destination d, as built by buildQueuePipeline / buildPassthruPipeline:
\* the tagger when the tag is not empty, then the tail.  The result is the sink
\* writes a Write(p) to that stage makes and tagPending afterwards.
downstream(r, d, pending, p) ==
    IF Len(tag[r][d]) > 0 /\ ~cfg.passthru
    THEN LET t == taggerWrite(tag[r][d], pending, p)
         IN  [writes |-> [i \in 1..Len(t.writes) |->
                             SinkWrite(d, r, t.writes[i].kind,
                                       t.writes[i].data)],
              tagPending |-> t.tagPending]
    ELSE [writes |-> <<SinkWrite(d, r, "data", p)>>, tagPending |-> pending]

RECURSIVE transfer(_, _, _, _)
\* chunkBuffer.transfer(out, err), the loop from chunk ix on: the index of the
\* next chunk that is written, Len(chunks) + 1 if there is none.  out and err
\* tell whether that writer is present (not nil); a chunk whose writer is
\* absent is passed over.
transfer(chunks, ix, out, err) ==
    IF ix > Len(chunks) THEN Len(chunks) + 1
    ELSE IF \/ chunks[ix].where = toStdout /\ out
            \/ chunks[ix].where = toStderr /\ err
         THEN ix
    ELSE transfer(chunks, ix + 1, out, err)

\* chunkBuffer.drain that ignores orderStderr.
drainIgnoringOrderStderr(orderStderr) == <<[out |-> TRUE, err |-> TRUE]>>

\* chunkBuffer.drain(orderStderr, out, err): the transfer calls it makes, each
\* with the writers it passes on.
drain(orderStderr) ==
    IF orderStderr
    THEN <<[out |-> TRUE, err |-> FALSE], [out |-> FALSE, err |-> TRUE]>>
    ELSE <<[out |-> TRUE, err |-> TRUE]>>

RECURSIVE drainNext(_, _, _, _)
\* The position of the next chunk that chunkBuffer.drain writes when it is in
\* transfer call number pass at chunk ix: [pass, ix], with pass beyond the
\* last transfer call when the drain is over.
drainNext(chunks, passes, pass, ix) ==
    IF pass > Len(passes) THEN [pass |-> pass, ix |-> 0]
    ELSE IF transfer(chunks, ix, passes[pass].out, passes[pass].err)
               <= Len(chunks)
         THEN [pass |-> pass,
               ix |-> transfer(chunks, ix, passes[pass].out, passes[pass].err)]
    ELSE drainNext(chunks, passes, pass + 1, 1)

\* chunkBuffer.write with the chunk put in front of the others.
chunkBufferWritePrepend(chunks, where, p) ==
    <<[where |-> where, data |-> p]>> \o chunks

\* chunkBuffer.write
chunkBufferWrite(chunks, where, p) ==
    Append(chunks, [where |-> where, data |-> p])

\* --------------------------------------------------------------- the workers
\* The number of writes the RunFuncs of the group have issued.
RECURSIVE SumLen(_, _)
SumLen(f, r) == IF r = 0 THEN 0 ELSE Len(f[r]) + SumLen(f, r - 1)

\* The workers that hold a runner: taken from todo and not yet received by Wait
\* from the completed channel.
Busy == {r \in RunnerIds : pc[r] \in {"run", "parked", "down", "send"}}

\* worker on a completed channel with a buffer: the goroutine is free for the
\* next runner as soon as the RunFunc has returned.
workerFreeAtReturn(r) ==
    /\ state # groupIsAdding
    /\ r <= nAdded
    /\ pc[r] = "todo"
    /\ \A q \in 1..(r - 1) : pc[q] # "todo"
    /\ Cardinality(Busy \ {q \in RunnerIds : pc[q] = "send"}) < nWorkers
    /\ pc' = [pc EXCEPT ![r] = "run"]
    /\ UNCHANGED <<failed, derr, held, unitVars, opts, applied, nerr, called,
                   cfg, state, runners, nAdded, nWorkers, tag, canClose, cq,
                   tagPending, cur, pend, inSink, outputMu, mpc, mcur, mret,
                   dpos, log, written, received, overQuota>>

\* worker: one of the nWorkers goroutines receives runner r from the todo
\* channel, on which the feeder goroutine sends the runners in list order, and
\* calls its RunFunc.
worker(r) ==
    /\ state # groupIsAdding
    /\ r <= nAdded
    /\ pc[r] = "todo"
    /\ \A q \in 1..(r - 1) : pc[q] # "todo"
    /\ Cardinality(Busy) < nWorkers
    /\ pc' = [pc EXCEPT ![r] = "run"]
    /\ UNCHANGED <<failed, derr, held, unitVars, opts, applied, nerr, called,
                   cfg, state, runners, nAdded, nWorkers, tag, canClose, cq,
                   tagPending, cur, pend, inSink, outputMu, mpc, mcur, mret,
                   dpos, log, written, received, overQuota>>

\* buildQueuePipeline: there is a tagger below the queue of runner r for
\* destination d.  A Passthru pipeline has none.
taggerIn(r, d) == ~cfg.passthru /\ Len(tag[r][d]) > 0

\* sync.Mutex.Lock of mutex m by a thread that holds h.
Lock(h, m) == Append(h, m)

\* An Unlock that is left out.
UnlockLeftOut(h, m) == h

\* sync.Mutex.Unlock of mutex m by a thread that holds h.
Unlock(h, m) == SelectSeq(h, LAMBDA x : x # m)

\* A Write that returns to the RunFunc before its data has gone downstream.
goDownstreamWithoutWaiting(r, where, p) ==
    LET w == downstream(r, where, tagPending[r][where], p) IN
    /\ pend' = [pend EXCEPT ![r] = w.writes]
    /\ tagPending' = [tagPending EXCEPT ![r][where] = w.tagPending]
    /\ pc' = [pc EXCEPT ![r] = "run"]
    /\ cur' = [cur EXCEPT ![r] = [where |-> where, data |-> p]]
    /\ held' = [held EXCEPT ![r] = IF taggerIn(r, where)
                                   THEN Lock(@, "tagger.mu") ELSE @]

\* The Write of thread r goes downstream to the tail(s): head.Write in a
\* Passthru pipeline, queue.Write in foreground or when released from block.
\* A tagger on the way locks its mutex until its Write returns.
goDownstream(r, where, p) ==
    LET w == downstream(r, where, tagPending[r][where], p) IN
    /\ pend' = [pend EXCEPT ![r] = w.writes]
    /\ tagPending' = [tagPending EXCEPT ![r][where] = w.tagPending]
    /\ pc' = [pc EXCEPT ![r] = "down"]
    /\ cur' = [cur EXCEPT ![r] = [where |-> where, data |-> p]]
    /\ held' = [held EXCEPT ![r] = IF taggerIn(r, where)
                                   THEN Lock(@, "tagger.mu") ELSE @]

\* queue.Write that refuses a write that brings used to the limit exactly.
overLimitAtLimit(q, p) == q.used + Len(p) >= q.limit

\* queue.Write that compares the bytes already buffered with the limit.
overLimitBeforeWrite(q, p) == q.used > q.limit

\* queue.Write, case backgroundWithLimit: p does not fit under the limit.
overLimit(q, p) == q.used + Len(p) > q.limit

\* queue.Write up to the point where it unlocks the commonQueue mutex, called
\* by the RunFunc of runner r through head.Write.
queueWrite(r, where, p) ==
    /\ ~cq[r].locked
    /\ CASE cq[r].state = backgroundWithLimit /\ ~overLimit(cq[r], p) ->
              /\ cq' = [cq EXCEPT ![r].chunks = chunkBufferWrite(@, where, p),
                                  ![r].used = @ + Len(p)]
              /\ UNCHANGED <<pc, cur, pend, tagPending, held>>
         [] cq[r].state = backgroundWithLimit /\ overLimit(cq[r], p) ->
              /\ cq' = [cq EXCEPT ![r].state = blocked]
              /\ pc' = [pc EXCEPT ![r] = "parked"]
              /\ cur' = [cur EXCEPT ![r] = [where |-> where, data |-> p]]
              /\ UNCHANGED <<pend, tagPending, held>>
         [] cq[r].state = blocked ->
              /\ pc' = [pc EXCEPT ![r] = "parked"]
              /\ cur' = [cur EXCEPT ![r] = [where |-> where, data |-> p]]
              /\ UNCHANGED <<cq, pend, tagPending, held>>
         [] cq[r].state = backgroundNoLimit ->
              /\ cq' = [cq EXCEPT ![r].chunks = chunkBufferWrite(@, where, p)]
              /\ UNCHANGED <<pc, cur, pend, tagPending, held>>
         [] cq[r].state = foreground ->
              /\ goDownstream(r, where, p)
              /\ UNCHANGED cq

\* The RunFunc of runner r calls Write(p) on its stdout or stderr writer.
Write(r, where, p) ==
    /\ pc[r] = "run"
    /\ SumLen(written, MaxRunners) < MaxWrites
    /\ written' = [written EXCEPT
                       ![r] = Append(@, [where |-> where, data |-> p])]
    /\ overQuota' = IF ~cfg.passthru /\ cq[r].state = backgroundWithLimit
                       /\ overLimit(cq[r], p)
                    THEN [overQuota EXCEPT ![r] = Len(written[r]) + 1]
                    ELSE overQuota
    /\ IF cfg.passthru
       THEN goDownstream(r, where, p) /\ UNCHANGED cq
       ELSE queueWrite(r, where, p)
    /\ UNCHANGED <<failed, derr, unitVars, opts, applied, nerr, called, cfg,
                   state, runners, nAdded, nWorkers, tag, canClose, inSink,
                   outputMu, mpc, mcur, mret, dpos, log, received>>

\* queue.Write, case blocked, that does not wait for block to be closed.
unblockEarly(r) ==
    /\ pc[r] = "parked"
    /\ goDownstream(r, cur[r].where, cur[r].data)
    /\ UNCHANGED <<failed, derr, unitVars, opts, applied, nerr, called, cfg,
                   state, runners, nAdded, nWorkers, tag, canClose, cq, inSink,
                   outputMu, mpc, mcur, mret, dpos, log, written, received,
                   overQuota>>

\* queue.Write, case blocked: the receive from the closed block channel
\* returns and the write goes downstream.
unblock(r) ==
    /\ pc[r] = "parked"
    /\ cq[r].blockClosed
    /\ goDownstream(r, cur[r].where, cur[r].data)
    /\ UNCHANGED <<failed, derr, unitVars, opts, applied, nerr, called, cfg,
                   state, runners, nAdded, nWorkers, tag, canClose, cq, inSink,
                   outputMu, mpc, mcur, mret, dpos, log, written, received,
                   overQuota>>

\* chunkBuffer.transfer, one turn of its loop: Main is at position pos of
\* the drain of runner r's queue, holds the mutexes h and writes the chunk
\* there downstream; beyond the last transfer call nothing is left to write.
transferWrite(r, pos, h) ==
    /\ dpos' = pos
    /\ IF pos.pass > Len(drain(cq[r].orderStderr))
       THEN /\ pend' = [pend EXCEPT ![Main] = <<>>]
            /\ held' = [held EXCEPT ![Main] = h]
            /\ UNCHANGED tagPending
       ELSE LET b == cq[r].chunks[pos.ix]
                w == downstream(r, b.where, tagPending[r][b.where], b.data)
            IN  /\ pend' = [pend EXCEPT ![Main] = w.writes]
                /\ tagPending' = [tagPending EXCEPT ![r][b.where] =
                                                        w.tagPending]
                /\ held' = [held EXCEPT ![Main] =
                               IF taggerIn(r, b.where)
                               THEN Lock(h, "tagger.mu") ELSE h]

\* tail.Write, first half: thread t locks outputMu and calls the sink's Write.
tailWrite(t) ==
    /\ pend[t] # <<>>
    /\ t \notin inSink
    /\ outputMu = NoOne
    /\ outputMu' = t
    /\ inSink' = inSink \cup {t}
    /\ log' = Append(log, Head(pend[t]))
    /\ held' = [held EXCEPT ![t] = Lock(@, "outputMu")]
    /\ UNCHANGED <<failed, derr, unitVars, opts, applied, nerr, called, cfg,
                   state, runners, nAdded, nWorkers, tag, canClose, cq,
                   tagPending, pc, cur, pend, mpc, mcur, mret, dpos, written,
                   received, overQuota>>

\* The mutex of tail.Write is left locked by a Write that failed.
outputMuKeptOnError(t, e) == IF e THEN t ELSE NoOne

\* tail.Write, the deferred wtr.outputMu.Unlock(): whatever the sink's Write
\* returned to thread t, outputMu is free afterwards.
outputMuUnlock(t, e) == NoOne

\* chunkBuffer.transfer, the end of a turn of its loop at position pos of the
\* drain, e telling whether the Write of the chunk returned an error: the
\* loop goes on with the next chunk of this transfer call, or returns, and
\* chunkBuffer.drain goes on with its next transfer call, if there is one.
transferNext(chunks, passes, pos, e) ==
    IF e THEN drainNext(chunks, passes, pos.pass + 1, 1)
    ELSE drainNext(chunks, passes, pos.pass, pos.ix + 1)

\* tail.Write, second half: the sink's Write returns to thread t, with an
\* error if e, and outputMu is unlocked.  After its last sink write the
\* Write of the tagger, if there is one, returns and unlocks its mutex; then
\* the Write call of a RunFunc returns, and the drain by Main goes on.
tailWriteResult(t, e) ==
    /\ t \in inSink
    /\ outputMu = t
    /\ outputMu' = outputMuUnlock(t, e)
    /\ inSink' = inSink \ {t}
    /\ IF Tail(pend[t]) # <<>>
       THEN /\ pend' = [pend EXCEPT ![t] = Tail(@)]
            /\ held' = [held EXCEPT ![t] = Unlock(@, "outputMu")]
            /\ derr' = (derr \/ e)
            /\ UNCHANGED <<pc, cur, tagPending, dpos>>
       ELSE IF t # Main
       THEN /\ pend' = [pend EXCEPT ![t] = <<>>]
            /\ pc' = [pc EXCEPT ![t] = "run"]
            /\ cur' = [cur EXCEPT ![t] = noWrite]
            /\ held' = [held EXCEPT ![t] =
                           Unlock(Unlock(@, "outputMu"), "tagger.mu")]
            /\ derr' = FALSE
            /\ UNCHANGED <<tagPending, dpos>>
       ELSE /\ transferWrite(mcur,
                             transferNext(cq[mcur].chunks,
                                          drain(cq[mcur].orderStderr),
                                          dpos, derr \/ e),
                             Unlock(Unlock(held[Main], "outputMu"),
                                    "tagger.mu"))
            /\ derr' = FALSE
            /\ UNCHANGED <<pc, cur>>
    /\ UNCHANGED <<unitVars, opts, applied, nerr, called, cfg, state, runners,
                   nAdded, nWorkers, tag, canClose, cq, mpc, mcur, mret, log,
                   written, received, overQuota>>

\* tail.Write, second half: the sink's Write returns without an error.
tailWriteReturn(t) ==
    /\ tailWriteResult(t, FALSE)
    /\ UNCHANGED failed

\* tail.Write, second half, in the drain of runner mcur's queue by Main: the
\* sink's Write returns an error.
tailWriteFails ==
    /\ mpc = "drain"
    /\ Len(failed) < MaxSinkFailures
    /\ tailWriteResult(Main, TRUE)
    /\ failed' = Append(failed, [runner |-> mcur, at |-> Len(log)])

\* worker: the RunFunc of runner r returns and the worker offers the runner
\* on the completed channel.
rFuncReturn(r) ==
    /\ pc[r] = "run"
    /\ pc' = [pc EXCEPT ![r] = "send"]
    /\ UNCHANGED <<failed, derr, held, unitVars, opts, applied, nerr, called,
                   cfg, state, runners, nAdded, nWorkers, tag, canClose, cq,
                   tagPending, cur, pend, inSink, outputMu, mpc, mcur, mret,
                   dpos, log, written, received, overQuota>>

\* ----------------------------------------------------------------- Group.Wait
\* Group.Wait that stays in groupIsRunning.
WaitWithoutStateChange ==
    /\ mpc = "caller"
    /\ checkState(groupIsRunning)
    /\ mpc' = "loop"
    /\ called' = [op |-> "Wait", before |-> state, panicked |-> FALSE]
    /\ UNCHANGED <<failed, derr, held, unitVars, opts, applied, nerr, cfg,
                   state, runners, nAdded, nWorkers, tag, canClose, cq,
                   tagPending, pc, cur, pend, inSink, outputMu, mcur, mret,
                   dpos, log, written, received, overQuota>>

\* Group.Wait, entry: checkState and the move to groupIsWaiting.
Wait ==
    /\ mpc = "caller"
    /\ checkState(groupIsRunning)
    /\ state' = groupIsWaiting
    /\ mpc' = "loop"
    /\ called' = [op |-> "Wait", before |-> state, panicked |-> FALSE]
    /\ UNCHANGED <<failed, derr, held, unitVars, opts, applied, nerr, cfg,
                   runners, nAdded, nWorkers, tag, canClose, cq, tagPending,
                   pc, cur, pend, inSink, outputMu, mcur, mret, dpos, log,
                   written, received, overQuota>>

\* Group.Wait that leaves its loop whatever the length of the list.
WaitReturnEarly ==
    /\ mpc = "loop"
    /\ state' = groupIsDone
    /\ mpc' = "caller"
    /\ UNCHANGED <<failed, derr, held, unitVars, opts, applied, nerr, called,
                   cfg, runners, nAdded, nWorkers, tag, canClose, cq,
                   tagPending, pc, cur, pend, inSink, outputMu, mcur, mret,
                   dpos, log, written, received, overQuota>>

\* Group.Wait, the loop ends: the deferred function makes the group done.
WaitReturn ==
    /\ mpc = "loop"
    /\ Len(runners) = 0
    /\ state' = groupIsDone
    /\ mpc' = "caller"
    /\ UNCHANGED <<failed, derr, held, unitVars, opts, applied, nerr, called,
                   cfg, runners, nAdded, nWorkers, tag, canClose, cq,
                   tagPending, pc, cur, pend, inSink, outputMu, mcur, mret,
                   dpos, log, written, received, overQuota>>

\* The list without runner e.
Remove(list, e) == SelectSeq(list, LAMBDA x : x # e)

\* Group.Wait, end of the loop body, that switches the front runner to
\* foreground whatever the configuration.
endOfLoopBodyWhateverConfig ==
    IF Len(runners) > 0 THEN "post" ELSE "loop"

\* Group.Wait that switches the front runner to foreground whenever the
\* runners have queues.
endOfLoopBodyOfQueues ==
    IF Len(runners) > 0 /\ ~cfg.passthru THEN "post" ELSE "loop"

\* Group.Wait, end of the loop body: Main is about to switch the front runner
\* to foreground ("post") if there is one and foreground is allowed, and is
\* back at the top of the loop otherwise.
endOfLoopBody ==
    IF Len(runners) > 0 /\ foregroundAllowed(cfg) THEN "post" ELSE "loop"

\* Group.closePrintRemoveContiguousFront that closes one runner for each
\* completion.
closePrintRemoveOneFront(cc) ==
    IF mpc = "loop" /\ Len(runners) > 0 /\ cc[Head(runners)] THEN "remove"
    ELSE endOfLoopBody

\* Group.closePrintRemoveContiguousFront, the test of its loop with the
\* flags cc: the front runner is closed next ("remove") if there is one and
\* it can be closed, otherwise the scan is over.
closePrintRemoveContiguousFront(cc) ==
    IF Len(runners) > 0 /\ cc[Head(runners)] THEN "remove" ELSE endOfLoopBody

\* Group.Wait that closes the received runner at once whatever OrderRunners.
WaitReceiveAnyOrder(r) ==
    /\ mpc = "loop"
    /\ Len(runners) > 0
    /\ pc[r] = "send"
    /\ pc' = [pc EXCEPT ![r] = "exit"]
    /\ canClose' = [canClose EXCEPT ![r] = TRUE]
    /\ received' = Append(received, r)
    /\ mpc' = "remove"
    /\ mcur' = r
    /\ UNCHANGED <<failed, derr, held, unitVars, opts, applied, nerr, called,
                   cfg, state, runners, nAdded, nWorkers, tag, cq, tagPending,
                   cur, pend, inSink, outputMu, mret, dpos, log, written,
                   overQuota>>

\* Group.Wait that scans the contiguous front whatever OrderRunners.
WaitReceiveAddOrder(r) ==
    /\ mpc = "loop"
    /\ Len(runners) > 0
    /\ pc[r] = "send"
    /\ pc' = [pc EXCEPT ![r] = "exit"]
    /\ canClose' = [canClose EXCEPT ![r] = TRUE]
    /\ received' = Append(received, r)
    /\ mpc' = closePrintRemoveContiguousFront(canClose')
    /\ mcur' = IF mpc' = "loop" THEN NoOne ELSE Head(runners)
    /\ UNCHANGED <<failed, derr, held, unitVars, opts, applied, nerr, called,
                   cfg, state, runners, nAdded, nWorkers, tag, cq, tagPending,
                   cur, pend, inSink, outputMu, mret, dpos, log, written,
                   overQuota>>

\* Group.Wait, top of the loop: receive runner r from the completed channel,
\* which frees its worker, mark it and choose the runner to close, if any.
WaitReceive(r) ==
    /\ mpc = "loop"
    /\ Len(runners) > 0
    /\ pc[r] = "send"
    /\ pc' = [pc EXCEPT ![r] = "exit"]
    /\ canClose' = [canClose EXCEPT ![r] = TRUE]
    /\ received' = Append(received, r)
    /\ mpc' = IF ~cfg.orderRunners THEN "remove"
              ELSE closePrintRemoveContiguousFront(canClose')
    /\ mcur' = IF ~cfg.orderRunners THEN r
               ELSE IF mpc' = "loop" THEN NoOne ELSE Head(runners)
    /\ UNCHANGED <<failed, derr, held, unitVars, opts, applied, nerr, called,
                   cfg, state, runners, nAdded, nWorkers, tag, cq, tagPending,
                   cur, pend, inSink, outputMu, mret, dpos, log, written,
                   overQuota>>

\* Group.closePrintRemove, first statement: runner mcur leaves the list.
closePrintRemove ==
    /\ mpc = "remove"
    /\ runners' = Remove(runners, mcur)
    /\ mpc' = "close"
    /\ UNCHANGED <<failed, derr, held, unitVars, opts, applied, nerr, called,
                   cfg, state, nAdded, nWorkers, tag, canClose, cq, tagPending,
                   pc, cur, pend, inSink, outputMu, mcur, mret, dpos, log,
                   written, received, overQuota>>

\* Where Main continues when closePrintRemove returns: in the scan of the
\* front of the list with OrderRunners, at the end of the loop body without.
afterClosePrintRemove ==
    IF cfg.orderRunners THEN closePrintRemoveContiguousFront(canClose)
    ELSE endOfLoopBody

\* Where Main continues in closePrintRemove once the stdout separator has
\* been dealt with: at the stderr separator if it is to be written.
afterOutSep ==
    IF Len(runners) > 0 /\ Len(cfg.errSep) > 0 THEN "errSep"
    ELSE afterClosePrintRemove

\* closePrintRemove that considers the stdout separator after the last
\* runner as well.
afterCloseOfAnyRunner ==
    IF Len(cfg.outSep) > 0 THEN "outSep" ELSE afterOutSep

\* Where Main continues in closePrintRemove once rnr.close() has returned: at
\* the first separator that is to be written.
afterClose ==
    IF Len(runners) > 0 /\ Len(cfg.outSep) > 0 THEN "outSep"
    ELSE afterOutSep

\* The runner Main deals with at position p of Wait: the front of the list
\* while it is scanned or switched to foreground.
runnerAt(p) ==
    IF p \in {"remove", "post"} THEN Head(runners)
    ELSE IF p = "loop" THEN NoOne
    ELSE mcur

\* queue.foreground of runner r, called by Main, up to the first write of the
\* drain: nothing to do when the queue is in foreground already; otherwise the
\* mutex is locked, the state is draining and the drain starts.
queueForeground(r, ret) ==
    /\ ~cq[r].locked
    /\ IF cq[r].state = foreground
       THEN /\ mpc' = ret
            /\ mcur' = runnerAt(ret)
            /\ UNCHANGED <<cq, pend, tagPending, mret, dpos, held>>
       ELSE /\ cq' = [cq EXCEPT ![r].state = draining, ![r].locked = TRUE]
            /\ transferWrite(r, drainNext(cq[r].chunks,
                                          drain(cq[r].orderStderr), 1, 1),
                             Lock(held[Main], "cq"))
            /\ mret' = ret
            /\ mpc' = "drain"
            /\ UNCHANGED mcur

\* runner.close that flushes nothing.
runnerCloseWithoutFlush ==
    /\ mpc = "close"
    /\ mpc' = afterClose
    /\ mcur' = runnerAt(afterClose)
    /\ UNCHANGED <<failed, derr, held, unitVars, opts, applied, nerr, called,
                   cfg, state, runners, nAdded, nWorkers, tag, canClose, pc,
                   cur, inSink, outputMu, log, written, received, overQuota,
                   cq, pend, tagPending, mret, dpos>>

\* runner.close: closing the stdout head reaches queue.close, which calls
\* foreground; closing the stderr head finds the queue in foreground.  The
\* heads of a Passthru pipeline have nothing to flush.
runnerClose ==
    /\ mpc = "close"
    /\ IF cfg.passthru
       THEN /\ mpc' = afterClose
            /\ mcur' = runnerAt(afterClose)
            /\ UNCHANGED <<cq, pend, tagPending, mret, dpos, held>>
       ELSE queueForeground(mcur, afterClose)
    /\ UNCHANGED <<failed, derr, unitVars, opts, applied, nerr, called, cfg,
                   state, runners, nAdded, nWorkers, tag, canClose, pc, cur,
                   inSink, outputMu, log, written, received, overQuota>>

\* queue.foreground, after the drain: the state becomes foreground, block is
\* closed and the mutex unlocked.
foregroundReturn ==
    /\ mpc = "drain"
    /\ pend[Main] = <<>>
    /\ Main \notin inSink
    /\ cq' = [cq EXCEPT ![mcur] = foregroundDone(@)]
    /\ held' = [held EXCEPT ![Main] = Unlock(@, "cq")]
    /\ mpc' = mret
    /\ mcur' = runnerAt(mret)
    /\ dpos' = noDrain
    /\ UNCHANGED <<failed, derr, unitVars, opts, applied, nerr, called, cfg,
                   state, runners, nAdded, nWorkers, tag, canClose, tagPending,
                   pc, cur, pend, inSink, outputMu, mret, log, written,
                   received, overQuota>>

\* Group.closePrintRemove: grp.stdout.Write(outSep) / grp.stderr.Write(errSep)
\* is called.
separatorWrite ==
    /\ mpc \in {"outSep", "errSep"}
    /\ Main \notin inSink
    /\ inSink' = inSink \cup {Main}
    /\ log' = Append(log, IF mpc = "outSep"
                          THEN SinkWrite(toStdout, NoOne, "sep", cfg.outSep)
                          ELSE SinkWrite(toStderr, NoOne, "sep", cfg.errSep))
    /\ UNCHANGED <<failed, derr, held, unitVars, opts, applied, nerr, called,
                   cfg, state, runners, nAdded, nWorkers, tag, canClose, cq,
                   tagPending, pc, cur, pend, outputMu, mpc, mcur, mret, dpos,
                   written, received, overQuota>>

\* Group.closePrintRemove: the Write of a separator returns.
separatorReturn ==
    /\ mpc \in {"outSep", "errSep"}
    /\ Main \in inSink
    /\ inSink' = inSink \ {Main}
    /\ LET next == IF mpc = "outSep" THEN afterOutSep ELSE afterClosePrintRemove
       IN  mpc' = next /\ mcur' = runnerAt(next)
    /\ UNCHANGED <<failed, derr, held, unitVars, opts, applied, nerr, called,
                   cfg, state, runners, nAdded, nWorkers, tag, canClose, cq,
                   tagPending, pc, cur, pend, outputMu, mret, dpos, log,
                   written, received, overQuota>>

\* Group.Wait, end of the loop body: the front runner is switched to
\* foreground (runner.switchToForeground).
switchToForeground ==
    /\ mpc = "post"
    /\ queueForeground(mcur, "loop")
    /\ UNCHANGED <<failed, derr, unitVars, opts, applied, nerr, called, cfg,
                   state, runners, nAdded, nWorkers, tag, canClose, pc, cur,
                   inSink, outputMu, log, written, received, overQuota>>

\* --------------------------------------------------------------- specification
Next ==
    \/ \E t \in Tags : Add(t[1], t[2])
    \/ Run
    \/ \E r \in RunnerIds : worker(r)
    \/ \E r \in RunnerIds, d \in Dests :
          \E p \in Payloads(DataByte(r, Len(written[r]) + 1)) : Write(r, d, p)
    \/ \E r \in RunnerIds : unblock(r)
    \/ \E t \in Threads : tailWrite(t)
    \/ \E t \in Threads : tailWriteReturn(t)
    \/ \E r \in RunnerIds : rFuncReturn(r)
    \/ Wait
    \/ \E r \in RunnerIds : WaitReceive(r)
    \/ closePrintRemove
    \/ runnerClose
    \/ foregroundReturn
    \/ separatorWrite
    \/ separatorReturn
    \/ switchToForeground
    \/ WaitReturn

Spec == Init /\ [][Next]_vars

\* The steps that need no decision of the caller or of a RunFunc: all but the
\* calls of Add and the writes of the RunFuncs.
Progress ==
    \/ Run
    \/ \E r \in RunnerIds : worker(r)
    \/ \E r \in RunnerIds : unblock(r)
    \/ \E t \in Threads : tailWrite(t)
    \/ \E t \in Threads : tailWriteReturn(t)
    \/ \E r \in RunnerIds : rFuncReturn(r)
    \/ Wait
    \/ \E r \in RunnerIds : WaitReceive(r)
    \/ closePrintRemove
    \/ runnerClose
    \/ foregroundReturn
    \/ separatorWrite
    \/ separatorReturn
    \/ switchToForeground
    \/ WaitReturn

\* Fair scheduling: the goroutines do not all stop while one of them can take
\* a step.  The caller calls Run and then Wait, and a RunFunc returns when it
\* has no more to write; nothing obliges the caller to call Add or a RunFunc
\* to write.
Fairness == WF_vars(Progress)

FairSpec == Spec /\ Fairness

\* ------------------------------------------------------------- failing sinks
\* The group with sinks whose Write may fail while a queue is drained.
FailNext ==
    \/ Next
    \/ tailWriteFails

FailSpec == Init /\ [][FailNext]_vars

\* ------------------------------------------------------- life-cycle misuse
\* The config of a Group that was not made by NewGroup: every field has its
\* zero value.
zeroConfig ==
    [stdout |-> "nil", stderr |-> "nil", outSep |-> <<>>, errSep |-> <<>>,
     limitMemory |-> 0, limitRunners |-> 0, orderRunners |-> FALSE,
     orderStderr |-> FALSE, passthru |-> FALSE]

\* No Group has been made: the variables of the Group are those of a
\* zero-value Group.
noGroup ==
    /\ opts = <<>>
    /\ applied = 0
    /\ nerr = "nil"
    /\ cfg = zeroConfig
    /\ state = groupIsZero
    /\ emptyGroup

\* A zero-value Group (var grp Group): its state is groupIsZero.
ZeroGroup ==
    /\ noGroup
    /\ noUnit

\* Group.Wait that sets groupIsWaiting before it calls checkState.
checkStatePanicsAfterAssignment(op, expect) ==
    /\ mpc = "caller"
    /\ ~checkState(expect)
    /\ called' = [op |-> op, before |-> state, panicked |-> TRUE]
    /\ state' = IF op = "Wait" THEN groupIsWaiting ELSE state
    /\ UNCHANGED <<failed, derr, held, unitVars, opts, applied, nerr, cfg,
                   runners, nAdded, nWorkers, tag, canClose, cq,
                   tagPending, pc, cur, pend, inSink, outputMu, mpc, mcur,
                   mret, dpos, log, written, received, overQuota>>

\* Group.checkState panics: the caller calls op (Add, Run or Wait), which
\* expects the state expect, while the Group is in another state.  The panic
\* leaves the Group as it was; a caller that recovers can go on calling.
checkStatePanics(op, expect) ==
    /\ mpc = "caller"
    /\ ~checkState(expect)
    /\ called' = [op |-> op, before |-> state, panicked |-> TRUE]
    /\ UNCHANGED <<failed, derr, held, unitVars, opts, applied, nerr, cfg,
                   state, runners, nAdded, nWorkers, tag, canClose, cq,
                   tagPending, pc, cur, pend, inSink, outputMu, mpc, mcur,
                   mret, dpos, log, written, received, overQuota>>

\* Group.Add called in a state other than groupIsAdding.
AddPanics == checkStatePanics("Add", groupIsAdding)

\* Group.Run called in a state other than groupIsAdding.
RunPanics == checkStatePanics("Run", groupIsAdding)

\* Group.Wait called in a state other than groupIsRunning.
WaitPanics == checkStatePanics("Wait", groupIsRunning)

\* A caller that also makes the calls the life cycle forbids, on a Group made
\* by NewGroup or on a zero-value Group.
CallInit == Init \/ ZeroGroup

CallNext ==
    \/ Next
    \/ AddPanics
    \/ RunPanics
    \/ WaitPanics

CallSpec == CallInit /\ [][CallNext]_vars

\* ----------------------------------------------------------------- NewGroup
\* The Options NewGroup can be given, each the name of the function that
\* makes it and the argument of that function.  A writer is "writer" or "nil".
OptionValues ==
    [name : {"LimitActiveRunners"}, value : 0..MaxActive]
    \cup [name : {"LimitMemoryPerRunner"}, value : 0..MaxMemory]
    \cup [name : {"OrderRunners", "OrderStderr", "Passthru"}, value : BOOLEAN]
    \cup [name : {"WithStdout", "WithStderr"}, value : {"writer", "nil"}]
    \cup [name : {"WithStdoutSeparator"}, value : {x[1] : x \in Separators}]
    \cup [name : {"WithStderrSeparator"}, value : {x[2] : x \in Separators}]

\* The argument lists of NewGroup.
OptionLists == UNION {[1..n -> OptionValues] : n \in 0..MaxOpts}

\* newGNUConfig
newGNUConfig ==
    [stdout |-> "os.Stdout", stderr |-> "os.Stderr", outSep |-> <<>>,
     errSep |-> <<>>, limitMemory |-> 0, limitRunners |-> 0,
     orderRunners |-> FALSE, orderStderr |-> TRUE, passthru |-> FALSE]

\* newConfig
newConfig ==
    [stdout |-> "os.Stdout", stderr |-> "os.Stderr", outSep |-> <<>>,
     errSep |-> <<>>, limitMemory |-> 0, limitRunners |-> 0,
     orderRunners |-> TRUE, orderStderr |-> FALSE, passthru |-> FALSE]

\* option.apply: the config after option o has been applied to config c.  No
\* option function returns an error.
optionApply(c, o) ==
    CASE o.name = "LimitActiveRunners" -> [c EXCEPT !.limitRunners = o.value]
      [] o.name = "LimitMemoryPerRunner" -> [c EXCEPT !.limitMemory = o.value]
      [] o.name = "OrderRunners" -> [c EXCEPT !.orderRunners = o.value]
      [] o.name = "OrderStderr" -> [c EXCEPT !.orderStderr = o.value]
      [] o.name = "Passthru" -> [c EXCEPT !.passthru = o.value]
      [] o.name = "WithStderr" -> [c EXCEPT !.stderr = o.value]
      [] o.name = "WithStderrSeparator" -> [c EXCEPT !.errSep = o.value]
      [] o.name = "WithStdout" -> [c EXCEPT !.stdout = o.value]
      [] o.name = "WithStdoutSeparator" -> [c EXCEPT !.outSep = o.value]

\* NewGroup is called with a list of options: newConfig has been called and
\* no Group exists yet.
NewGroupCall ==
    /\ opts \in OptionLists
    /\ applied = 0
    /\ nerr = "pending"
    /\ cfg = newConfig
    /\ state = groupIsZero
    /\ emptyGroup
    /\ noUnit

\* NewGroup, one turn of its loop: the next option is applied; its error is
\* nil, so the loop goes on.
NewGroupApply ==
    /\ nerr = "pending"
    /\ applied < Len(opts)
    /\ cfg' = optionApply(cfg, opts[applied + 1])
    /\ applied' = applied + 1
    /\ UNCHANGED <<failed, derr, held, unitVars, opts, nerr, state, called,
                   runners, nAdded, nWorkers, tag, canClose, cq, tagPending,
                   pc, cur, pend, inSink, outputMu, mpc, mcur, mret, dpos, log,
                   written, received, overQuota>>

\* NewGroup, after the loop: checkConflicts, then either the error is returned
\* with no Group or the Group is made in groupIsAdding.
NewGroupReturn ==
    /\ nerr = "pending"
    /\ applied = Len(opts)
    /\ IF checkConflicts(cfg)
       THEN nerr' = "conflict" /\ UNCHANGED state
       ELSE nerr' = "nil" /\ state' = groupIsAdding
    /\ UNCHANGED <<failed, derr, held, unitVars, opts, applied, cfg, called,
                   runners, nAdded, nWorkers, tag, canClose, cq, tagPending,
                   pc, cur, pend, inSink, outputMu, mpc, mcur, mret, dpos, log,
                   written, received, overQuota>>

ConfigNext ==
    \/ NewGroupApply
    \/ NewGroupReturn

ConfigSpec == NewGroupCall /\ [][ConfigNext]_vars

\* ------------------------------------------------------------- tagger.Write
\* The byte sequences of at most n bytes, each a newline or the letter 'a'.
ByteSeqs(n) == UNION {[1..k -> {97, NL}] : k \in 0..n}

\* What the downstream writer may return for the Write calls ws the tagger
\* makes during one call: each call succeeds (all bytes, nil) or fails with a
\* count of 0..len bytes and an error of its own, at most MaxFailures of them.
Results(ws) ==
    {[i \in 1..Len(ws) |->
         IF i \in DOMAIN c THEN [b |-> c[i], e |-> i]
         ELSE [b |-> Len(ws[i].data), e |-> noError]] :
       c \in UNION {{f \in [F -> 0..MaxBytes] :
                        \A i \in F : f[i] <= Len(ws[i].data)} :
                    F \in {G \in SUBSET (1..Len(ws)) :
                             Cardinality(G) <= MaxFailures}}}

\* tagger.Write as in the second copy of the function: the bytes of a data
\* write are counted unless that write brought the first error, a newline as
\* one byte.
accumulateUnlessFirstError(w, r, n, err) ==
    IF w.kind # "data" \/ (r.e # noError /\ err = noError) THEN n
    ELSE IF w.data = <<NL>> THEN n + 1
    ELSE n + r.b

\* tagger.Write, "n += b": the byte count after downstream write w has
\* returned r, from the count n and the error err before it.  The bytes of the
\* tag (W2, W5) are not counted.
accumulate(w, r, n, err) == IF w.kind = "data" THEN n + r.b ELSE n

\* tagger.Write that returns the last error.
coalesceLast(err, e) == IF e # noError THEN e ELSE err

\* tagger.Write, "if e != nil && err == nil { err = e }".
coalesce(err, e) == IF e # noError /\ err = noError THEN e ELSE err

RECURSIVE taggerReturn(_, _, _, _, _)
\* tagger.Write: what it returns when its downstream writes ws return rs,
\* from write i on, with n and err as they are before write i.  W0 makes no
\* downstream write and returns 0, nil; W1 makes one and returns its result.
taggerReturn(ws, rs, i, n, err) ==
    IF i > Len(ws) THEN [n |-> n, err |-> err]
    ELSE taggerReturn(ws, rs, i + 1, accumulate(ws[i], rs[i], n, err),
                      coalesce(err, rs[i].e))

\* newTagger(out, tag), and the bytes B that will be written through it.
newTagger ==
    /\ tgr \in [tag : {<<>>, <<116>>}, tagPending : {TRUE}]
    /\ unsent \in ByteSeqs(MaxBytes)
    /\ sent = <<>>
    /\ emitted = <<>>
    /\ rets = <<>>

\* tagger.Write(p) with p the next k bytes of B, the downstream writes
\* returning rs.
taggerWriteCall(k, rs) ==
    LET p == SubSeq(unsent, 1, k)
        w == taggerWrite(tgr.tag, tgr.tagPending, p)
        r == taggerReturn(w.writes, rs, 1, 0, noError)
    IN  /\ Len(rets) < MaxCalls
        /\ rs \in Results(w.writes)
        /\ tgr' = [tgr EXCEPT !.tagPending = w.tagPending]
        /\ unsent' = SubSeq(unsent, k + 1, Len(unsent))
        /\ sent' = sent \o p
        /\ emitted' = emitted \o
              [i \in 1..Len(w.writes) |->
                  [kind |-> w.writes[i].kind, data |-> w.writes[i].data,
                   b |-> rs[i].b, e |-> rs[i].e, call |-> Len(rets) + 1]]
        /\ rets' = Append(rets, [p |-> p, n |-> r.n, err |-> r.err])
        /\ UNCHANGED <<bufferVars, queueVars, groupVars>>

TaggerInit == noGroup /\ noBuffer /\ noQueue /\ newTagger

TaggerNext ==
    \E k \in 0..MaxBytes :
       /\ k <= Len(unsent)
       /\ \E rs \in Results(taggerWrite(tgr.tag, tgr.tagPending,
                                        SubSeq(unsent, 1, k)).writes) :
             taggerWriteCall(k, rs)

TaggerSpec == TaggerInit /\ [][TaggerNext]_vars

\* ------------------------------------------------ chunkBuffer.drain, transfer
\* The chunk lists of at most n chunks; the data of chunk i is the byte i.
ChunkLists(n) ==
    UNION {{[i \in 1..k |-> [where |-> w[i], data |-> <<i>>]] :
              w \in [1..k -> Dests]} : k \in 0..n}

\* The number of Write calls the writer for d has received among the calls cs.
CallsOn(cs, d) == Len(SelectSeq(cs, LAMBDA c : c.where = d))

\* The error the writer for d returns for its next Write call when the
\* writers are in state w: its call number failAt[d] fails, with an error
\* that names the writer.
writeError(w, d) ==
    IF CallsOn(w.calls, d) + 1 = w.failAt[d]
    THEN (IF d = toStdout THEN 1 ELSE 2)
    ELSE noError

\* The writers w after the Write of chunk c that returned e.
writeChunk(w, c, e) ==
    [w EXCEPT !.calls = Append(@, [where |-> c.where, data |-> c.data,
                                   e |-> e])]

RECURSIVE transferThrough(_, _, _, _, _)
\* chunkBuffer.transfer that goes on after a Write that failed.
transferThrough(chunks, ix, out, err, w) ==
    IF transfer(chunks, ix, out, err) > Len(chunks)
    THEN [w |-> w, e |-> noError]
    ELSE LET j == transfer(chunks, ix, out, err)
             e == writeError(w, chunks[j].where)
         IN  transferThrough(chunks, j + 1, out, err,
                             writeChunk(w, chunks[j], e))

RECURSIVE transferCalls(_, _, _, _, _)
\* chunkBuffer.transfer(out, err), the loop from chunk ix on with the writers
\* in state w: the writers afterwards and the error returned.  A chunk is
\* written to the writer of its destination if that is present; the first
\* Write that fails ends the loop.
transferCalls(chunks, ix, out, err, w) ==
    IF transfer(chunks, ix, out, err) > Len(chunks)
    THEN [w |-> w, e |-> noError]
    ELSE LET j == transfer(chunks, ix, out, err)
             e == writeError(w, chunks[j].where)
         IN  IF e # noError THEN [w |-> writeChunk(w, chunks[j], e), e |-> e]
             ELSE transferCalls(chunks, j + 1, out, err,
                                writeChunk(w, chunks[j], e))

RECURSIVE drainCalls(_, _, _, _)
\* chunkBuffer.drain: the writers after the transfer calls passes[i..], each
\* over all the chunks; the error of a transfer call is not looked at.
drainCalls(chunks, passes, i, w) ==
    IF i > Len(passes) THEN w
    ELSE drainCalls(chunks, passes, i + 1,
                    transferCalls(chunks, 1, passes[i].out, passes[i].err,
                                  w).w)

\* A chunkBuffer that chunkBuffer.write has filled, and two writers, each
\* with the number of its Write call that fails (0: none).
newBuffer ==
    /\ buf \in ChunkLists(MaxChunks)
    /\ wtrs \in [failAt : [Dests -> 0..MaxChunks], calls : {<<>>}]
    /\ tret = [op |-> "none", err |-> noError, orderStderr |-> FALSE,
               chunks |-> <<>>]

\* buf.drain(orderStderr, out, err): the chunks are released.
chunkBufferDrain(orderStderr) ==
    /\ tret.op = "none"
    /\ wtrs' = drainCalls(buf, drain(orderStderr), 1, wtrs)
    /\ buf' = <<>>
    /\ tret' = [op |-> "drain", err |-> noError, orderStderr |-> orderStderr,
                chunks |-> buf]
    /\ UNCHANGED <<taggerVars, queueVars, groupVars>>

\* buf.transfer(out, err) with both writers present: the chunks stay.
chunkBufferTransfer ==
    /\ tret.op = "none"
    /\ wtrs' = transferCalls(buf, 1, TRUE, TRUE, wtrs).w
    /\ tret' = [op |-> "transfer",
                err |-> transferCalls(buf, 1, TRUE, TRUE, wtrs).e,
                orderStderr |-> FALSE, chunks |-> buf]
    /\ UNCHANGED <<buf, taggerVars, queueVars, groupVars>>

BufferInit == noGroup /\ noTagger /\ noQueue /\ newBuffer

BufferNext ==
    \/ \E o \in BOOLEAN : chunkBufferDrain(o)
    \/ chunkBufferTransfer

BufferSpec == BufferInit /\ [][BufferNext]_vars

\* ---------------------------------------------- queue.Write, queue.foreground
\* The data byte of write number n of the writer for d.
QueueByte(d, n) == DataByte(IF d = toStdout THEN 1 ELSE 2, n)

\* The number of Write calls made on the writer for d.
IssuedTo(d) == Len(SelectSeq(qwritten, LAMBDA w : w.where = d))

\* newQueue(orderStderr, limit, out, err): a queue core, its stdout and its
\* stderr writer, each used by a goroutine of its own, and a goroutine that
\* calls foreground and close.
newQueues ==
    /\ core \in {newQueue(o, l) : o \in BOOLEAN, l \in 0..MaxQueueLimit}
    /\ qpc = [d \in Dests |-> "idle"]
    /\ qcur = [d \in Dests |-> noWrite]
    /\ qfg = [pc |-> "idle", pos |-> noDrain, calls |-> 0]
    /\ qlog = <<>>
    /\ qwritten = <<>>

\* queue.Write that buffers in a blocked queue what fits under the limit.
queueWriteCallBufferingWhenBlocked(d, p) ==
    /\ qpc[d] = "idle"
    /\ Len(qwritten) < MaxQueueWrites
    /\ ~core.locked
    /\ qwritten' = Append(qwritten, [where |-> d, data |-> p])
    /\ CASE core.state \in {backgroundWithLimit, blocked}
              /\ ~overLimit(core, p) ->
              /\ core' = [core EXCEPT !.chunks = chunkBufferWrite(@, d, p),
                                      !.used = @ + Len(p)]
              /\ UNCHANGED <<qpc, qcur>>
         [] core.state \in {backgroundWithLimit, blocked}
              /\ overLimit(core, p) ->
              /\ core' = [core EXCEPT !.state = blocked]
              /\ qpc' = [qpc EXCEPT ![d] = "parked"]
              /\ qcur' = [qcur EXCEPT ![d] = [where |-> d, data |-> p]]
         [] core.state = backgroundNoLimit ->
              /\ core' = [core EXCEPT !.chunks = chunkBufferWrite(@, d, p)]
              /\ UNCHANGED <<qpc, qcur>>
         [] core.state = foreground ->
              /\ qpc' = [qpc EXCEPT ![d] = "down"]
              /\ qcur' = [qcur EXCEPT ![d] = [where |-> d, data |-> p]]
              /\ UNCHANGED core
         [] OTHER ->
              /\ qpc' = [qpc EXCEPT ![d] = "panic"]
              /\ qcur' = [qcur EXCEPT ![d] = [where |-> d, data |-> p]]
              /\ UNCHANGED core
    /\ UNCHANGED <<qfg, qlog, taggerVars, bufferVars, groupVars>>

\* queue.Write(p) on the writer for d: under the mutex of the core the chunk
\* is buffered, or the writer leaves to wait for block, or to write
\* downstream; a state that is none of the four makes it panic.
queueWriteCall(d, p) ==
    /\ qpc[d] = "idle"
    /\ Len(qwritten) < MaxQueueWrites
    /\ ~core.locked
    /\ qwritten' = Append(qwritten, [where |-> d, data |-> p])
    /\ CASE core.state = backgroundWithLimit /\ ~overLimit(core, p) ->
              /\ core' = [core EXCEPT !.chunks = chunkBufferWrite(@, d, p),
                                      !.used = @ + Len(p)]
              /\ UNCHANGED <<qpc, qcur>>
         [] core.state = backgroundWithLimit /\ overLimit(core, p) ->
              /\ core' = [core EXCEPT !.state = blocked]
              /\ qpc' = [qpc EXCEPT ![d] = "parked"]
              /\ qcur' = [qcur EXCEPT ![d] = [where |-> d, data |-> p]]
         [] core.state = blocked ->
              /\ qpc' = [qpc EXCEPT ![d] = "parked"]
              /\ qcur' = [qcur EXCEPT ![d] = [where |-> d, data |-> p]]
              /\ UNCHANGED core
         [] core.state = backgroundNoLimit ->
              /\ core' = [core EXCEPT !.chunks = chunkBufferWrite(@, d, p)]
              /\ UNCHANGED <<qpc, qcur>>
         [] core.state = foreground ->
              /\ qpc' = [qpc EXCEPT ![d] = "down"]
              /\ qcur' = [qcur EXCEPT ![d] = [where |-> d, data |-> p]]
              /\ UNCHANGED core
         [] OTHER ->
              /\ qpc' = [qpc EXCEPT ![d] = "panic"]
              /\ qcur' = [qcur EXCEPT ![d] = [where |-> d, data |-> p]]
              /\ UNCHANGED core
    /\ UNCHANGED <<qfg, qlog, taggerVars, bufferVars, groupVars>>

\* queue.Write, case blocked, that does not wait for block to be closed.
queueUnblockEarly(d) ==
    /\ qpc[d] = "parked"
    /\ qpc' = [qpc EXCEPT ![d] = "down"]
    /\ UNCHANGED <<core, qcur, qfg, qlog, qwritten, taggerVars, bufferVars,
                   groupVars>>

\* queue.Write, case blocked: the receive from the closed block channel
\* returns.
queueUnblock(d) ==
    /\ qpc[d] = "parked"
    /\ core.blockClosed
    /\ qpc' = [qpc EXCEPT ![d] = "down"]
    /\ UNCHANGED <<core, qcur, qfg, qlog, qwritten, taggerVars, bufferVars,
                   groupVars>>

\* queue.Write: the Write of the downstream writer is made and returns.
queueWriteDown(d) ==
    /\ qpc[d] = "down"
    /\ qlog' = Append(qlog, [where |-> d, data |-> qcur[d].data,
                             by |-> "Write"])
    /\ qpc' = [qpc EXCEPT ![d] = "idle"]
    /\ qcur' = [qcur EXCEPT ![d] = noWrite]
    /\ UNCHANGED <<core, qfg, qwritten, taggerVars, bufferVars, groupVars>>

\* queue.foreground that does not return early when the state is foreground.
queueForegroundCallAlways ==
    /\ qfg.pc = "idle"
    /\ qfg.calls < MaxForegrounds
    /\ ~core.locked
    /\ core' = [core EXCEPT !.state = draining, !.locked = TRUE]
    /\ qfg' = [pc |-> "drain", calls |-> qfg.calls + 1,
               pos |-> drainNext(core.chunks, drain(core.orderStderr), 1, 1)]
    /\ UNCHANGED <<qpc, qcur, qlog, qwritten, taggerVars, bufferVars,
                   groupVars>>

\* queue.foreground that does not lock the mutex of the core.
queueForegroundCallUnlocked ==
    /\ qfg.pc = "idle"
    /\ qfg.calls < MaxForegrounds
    /\ ~core.locked
    /\ IF core.state = foreground
       THEN /\ qfg' = [qfg EXCEPT !.calls = @ + 1]
            /\ UNCHANGED core
       ELSE /\ core' = [core EXCEPT !.state = draining]
            /\ qfg' = [pc |-> "drain", calls |-> qfg.calls + 1,
                       pos |-> drainNext(core.chunks,
                                         drain(core.orderStderr), 1, 1)]
    /\ UNCHANGED <<qpc, qcur, qlog, qwritten, taggerVars, bufferVars,
                   groupVars>>

\* queue.foreground, also called by queue.close: nothing to do in foreground;
\* otherwise the mutex is locked, the state is draining and the drain starts.
queueForegroundCall ==
    /\ qfg.pc = "idle"
    /\ qfg.calls < MaxForegrounds
    /\ ~core.locked
    /\ IF core.state = foreground
       THEN /\ qfg' = [qfg EXCEPT !.calls = @ + 1]
            /\ UNCHANGED core
       ELSE /\ core' = [core EXCEPT !.state = draining, !.locked = TRUE]
            /\ qfg' = [pc |-> "drain", calls |-> qfg.calls + 1,
                       pos |-> drainNext(core.chunks,
                                         drain(core.orderStderr), 1, 1)]
    /\ UNCHANGED <<qpc, qcur, qlog, qwritten, taggerVars, bufferVars,
                   groupVars>>

\* chunkBuffer.transfer, one turn of its loop in the drain of the core.
queueDrainWrite ==
    /\ qfg.pc = "drain"
    /\ qfg.pos.pass <= Len(drain(core.orderStderr))
    /\ qlog' = Append(qlog, [where |-> core.chunks[qfg.pos.ix].where,
                             data |-> core.chunks[qfg.pos.ix].data,
                             by |-> "drain"])
    /\ qfg' = [qfg EXCEPT !.pos = transferNext(core.chunks,
                                               drain(core.orderStderr),
                                               qfg.pos, FALSE)]
    /\ UNCHANGED <<core, qpc, qcur, qwritten, taggerVars, bufferVars,
                   groupVars>>

\* queue.foreground, after the drain: the state becomes foreground, block is
\* closed and the deferred Unlock unlocks the mutex.  The close of a channel
\* that is closed already panics.
queueForegroundReturn ==
    /\ qfg.pc = "drain"
    /\ qfg.pos.pass > Len(drain(core.orderStderr))
    /\ core' = foregroundDone(core)
    /\ qfg' = [qfg EXCEPT !.pc = IF core.blockClosed THEN "panic" ELSE "idle",
                          !.pos = noDrain]
    /\ UNCHANGED <<qpc, qcur, qlog, qwritten, taggerVars, bufferVars,
                   groupVars>>

QueueInit == noGroup /\ noTagger /\ noBuffer /\ newQueues

QueueNext ==
    \/ \E d \in Dests :
          \E p \in Payloads(QueueByte(d, IssuedTo(d) + 1)) :
             queueWriteCall(d, p)
    \/ \E d \in Dests : queueUnblock(d)
    \/ \E d \in Dests : queueWriteDown(d)
    \/ queueForegroundCall
    \/ queueDrainWrite
    \/ queueForegroundReturn

QueueSpec == QueueInit /\ [][QueueNext]_vars

\* ------------------------------------------------------------------ observers
\* The bytes of the writes ws, each paired with the destination of its write.
RECURSIVE Pairs(_)
Pairs(ws) ==
    IF ws = <<>> THEN <<>>
    ELSE [i \in 1..Len(Head(ws).data) |-> <<Head(ws).where, Head(ws).data[i]>>]
         \o Pairs(Tail(ws))

\* The data bytes of the sink writes es (tags and separators left out), each
\* paired with its sink.
SinkPairs(es) ==
    Pairs([i \in 1..Len(SelectSeq(es, LAMBDA e : e.kind = "data")) |->
             LET e == SelectSeq(es, LAMBDA x : x.kind = "data")[i]
             IN  [where |-> e.sink, data |-> e.data]])

\* The bytes runner r has written, destination by destination, in write order.
WrittenPairs(r) == Pairs(written[r])

\* The data bytes of runner r the group sinks have received, in order of
\* arrival over both sinks.
DeliveredPairs(r) == SinkPairs(SelectSeq(log, LAMBDA e : e.rnr = r))

\* The pairs of ps for destination d.
OnlyTo(ps, d) == SelectSeq(ps, LAMBDA x : x[1] = d)

\* The bytes of pairs.
Bytes(ps) == [i \in 1..Len(ps) |-> ps[i][2]]

\* The sink writes thread t has computed and not yet started.
NotStarted(t) == IF t \in inSink THEN Tail(pend[t]) ELSE pend[t]

RECURSIVE DrainRest(_, _, _, _)
\* The chunks the drain has yet to write from position (pass, ix) on.
DrainRest(chunks, passes, pass, ix) ==
    IF drainNext(chunks, passes, pass, ix).pass > Len(passes) THEN <<>>
    ELSE <<chunks[drainNext(chunks, passes, pass, ix).ix]>>
         \o DrainRest(chunks, passes,
                      drainNext(chunks, passes, pass, ix).pass,
                      drainNext(chunks, passes, pass, ix).ix + 1)

\* The bytes of runner r that are on their way: buffered chunks (or what is
\* left of them during the drain), then the write its RunFunc is inside of.
InFlightPairs(r) ==
    (IF cq[r].state = draining
     THEN SinkPairs(NotStarted(Main))
          \o Pairs(DrainRest(cq[r].chunks, drain(cq[r].orderStderr),
                             dpos.pass, dpos.ix + 1))
     ELSE Pairs(cq[r].chunks))
    \o (IF pc[r] = "parked" THEN Pairs(<<cur[r]>>)
        ELSE IF pc[r] = "down" THEN SinkPairs(NotStarted(r))
        ELSE <<>>)

\* The byte stream of sink d without the tags.
SinkStream(d) ==
    LET es == SelectSeq(log, LAMBDA e : e.sink = d /\ e.kind # "tag")
    IN  Flatten([i \in 1..Len(es) |-> es[i].data])

Sep(d) == IF d = toStdout THEN cfg.outSep ELSE cfg.errSep

\* B_1 SEP B_2 SEP ... B_n for sink d, B_i what runner i wrote to d.
RECURSIVE InAddOrder(_, _)
InAddOrder(d, n) ==
    IF n = 0 THEN <<>>
    ELSE (IF n > 1 THEN InAddOrder(d, n - 1) \o Sep(d) ELSE <<>>)
         \o Bytes(OnlyTo(WrittenPairs(n), d))

\* Runner r has left the list and closePrintRemove has closed its pipeline.
Flushed(r) ==
    /\ r <= nAdded
    /\ state # groupIsAdding
    /\ \A i \in 1..Len(runners) : runners[i] # r
    /\ ~(mcur = r /\ mpc \in {"remove", "close", "drain"})

IsPrefix(s, t) == Len(s) <= Len(t) /\ SubSeq(t, 1, Len(s)) = s

\* ------------------------------------------------------------------ properties
\* C1: with OrderRunners(true), once Wait has returned the byte stream of each
\* group sink is B_1 SEP B_2 SEP ... B_n, with B_i what runner i wrote to that
\* sink, and at no time does a sink receive a byte of a runner before it has
\* received the last byte of every runner added earlier.
C1_RunnerOrder ==
    cfg.orderRunners =>
       /\ state = groupIsDone =>
             \A d \in Dests : SinkStream(d) = InAddOrder(d, nAdded)
       /\ \A i \in 1..Len(log) : \A q \in 1..(log[i].rnr - 1) :
             /\ pc[q] = "exit"
             /\ OnlyTo(DeliveredPairs(q), log[i].sink)
                   = OnlyTo(WrittenPairs(q), log[i].sink)
             /\ \A j \in (i + 1)..Len(log) : log[j].rnr # q

\* Wait has returned; runner 2 completed before runner 1, both wrote to stdout
\* and a separator was written between their blocks.
C1_Witness ==
    /\ cfg.orderRunners
    /\ state = groupIsDone
    /\ nAdded >= 2
    /\ received[1] = 2
    /\ Len(cfg.outSep) > 0
    /\ \A r \in 1..2 : OnlyTo(WrittenPairs(r), toStdout) # <<>>

\* C2: under fair scheduling, for every configuration NewGroup accepts, every
\* writer parked in the blocked state is eventually released and Wait
\* eventually returns: whatever has happened so far, a state follows in which
\* Wait has returned and no writer is parked.
C2_DeadlockFree ==
    []<>(state = groupIsDone /\ \A r \in RunnerIds : pc[r] # "parked")

\* A writer is parked while its queue is blocked and Wait is waiting for a
\* completion.
C2_Witness ==
    \E r \in 1..nAdded :
       /\ pc[r] = "parked"
       /\ cq[r].state = blocked
       /\ mpc = "loop"

\* C3: when Wait has returned every registered RunFunc has returned and its
\* completion has been received, the runner list is empty, every queue buffer
\* is empty and every byte written by a RunFunc has reached its group sink.
C3_WaitReturnsAfterAll ==
    state = groupIsDone =>
       /\ runners = <<>>
       /\ \A r \in 1..nAdded :
             /\ pc[r] = "exit"
             /\ cq[r].chunks = <<>>
             /\ \A d \in Dests :
                   OnlyTo(DeliveredPairs(r), d) = OnlyTo(WrittenPairs(r), d)

\* Wait has returned for a group of two runners whose writes were buffered.
C3_Witness ==
    /\ state = groupIsDone
    /\ nAdded = 2
    /\ ~cfg.passthru
    /\ ~foregroundAllowed(cfg)
    /\ \A r \in 1..2 : written[r] # <<>>

\* C4: with orderStderr = false, the bytes of a runner that the sinks have
\* received, taken over both sinks in order of arrival, followed by the bytes
\* still buffered or inside a Write call, are exactly the bytes its RunFunc
\* wrote, in write order: nothing is lost, duplicated or reordered whenever the
\* foreground transition happens.
C4_BufferFidelity ==
    (~cfg.orderStderr /\ ~cfg.passthru) =>
       \A r \in 1..nAdded :
          /\ DeliveredPairs(r) \o InFlightPairs(r) = WrittenPairs(r)
          /\ Flushed(r) => DeliveredPairs(r) = WrittenPairs(r)

\* Runner 2 buffered a write to stderr, was switched to foreground while its
\* RunFunc was running, wrote to stdout directly, and all of it has arrived.
C4_Witness ==
    /\ ~cfg.orderStderr /\ ~cfg.passthru
    /\ nAdded >= 2
    /\ Len(written[2]) = 2
    /\ written[2][1].where = toStderr
    /\ written[2][2].where = toStdout
    /\ pc[2] = "run"
    /\ cq[2].state = foreground
    /\ Len(log) >= 2
    /\ log[Len(log)].rnr = 2 /\ log[Len(log)].sink = toStdout
    /\ DeliveredPairs(2) = WrittenPairs(2)

\* C5: with orderStderr = true, once a runner has been flushed the sinks have
\* received all its stdout bytes in write order, then all its stderr bytes in
\* write order, each byte once.
C5_OrderStderr ==
    cfg.orderStderr =>
       \A r \in 1..nAdded :
          /\ Flushed(r) =>
                DeliveredPairs(r) = OnlyTo(WrittenPairs(r), toStdout)
                                    \o OnlyTo(WrittenPairs(r), toStderr)
          /\ IsPrefix(DeliveredPairs(r),
                      OnlyTo(WrittenPairs(r), toStdout)
                      \o OnlyTo(WrittenPairs(r), toStderr))

\* A runner that wrote to stderr and then to stdout has been flushed.
C5_Witness ==
    /\ cfg.orderStderr
    /\ \E r \in 1..nAdded :
          /\ Flushed(r)
          /\ Len(written[r]) = 2
          /\ written[r][1].where = toStderr
          /\ written[r][2].where = toStdout

\* The number of bytes in the chunks of a buffer.
BufferedBytes(chunks) == Len(Pairs(chunks))

\* C7: with LimitMemoryPerRunner = L > 0 the chunk buffer of a runner never
\* holds more than L bytes, stdout and stderr chunks together.
C7_MemoryCap ==
    \A r \in 1..nAdded :
       cq[r].limit > 0 => BufferedBytes(cq[r].chunks) <= cq[r].limit

\* A runner with a full buffer has been refused a further write.
C7_Witness ==
    \E r \in 1..nAdded :
       /\ cq[r].limit > 0
       /\ BufferedBytes(cq[r].chunks) = cq[r].limit
       /\ cq[r].state = blocked
       /\ pc[r] = "parked"

\* C9: at most one runner of the list has its queue in foreground, and it is
\* the runner at the front of the list.
C9_OneForeground ==
    \A i \in 1..Len(runners) : cq[runners[i]].state = foreground => i = 1

\* Runner 1 has been flushed and runner 2, now at the front, was switched to
\* foreground while its RunFunc was still running.
C9_Witness ==
    /\ nAdded = 2
    /\ runners = <<2>>
    /\ cq[2].state = foreground
    /\ cq[1].state = foreground
    /\ pc[2] = "run"

\* C6: a write that finds the buffer over the limit does not proceed before
\* the foreground transition of its queue is complete (state foreground,
\* buffer drained), and by the time it has returned its bytes have reached
\* the sinks, after the bytes of every chunk buffered before it.
C6_BlockedUntilForeground ==
    \A r \in 1..nAdded :
       overQuota[r] > 0 =>
          LET k == overQuota[r]
              before == Pairs(SubSeq(written[r], 1, k - 1))
              p == Pairs(<<written[r][k]>>)
          IN  /\ cq[r].state # foreground =>
                    pc[r] = "parked" /\ IsPrefix(DeliveredPairs(r), before)
              /\ pc[r] # "parked" =>
                    /\ cq[r].state = foreground
                    /\ cq[r].chunks = <<>>
                    /\ IsPrefix(before, DeliveredPairs(r))
              /\ (pc[r] \notin {"parked", "down"} \/ Len(written[r]) > k) =>
                    IsPrefix(before \o p, DeliveredPairs(r))

\* The second write of a runner was over the limit and has returned.
C6_Witness ==
    \E r \in 1..nAdded :
       /\ overQuota[r] = 2
       /\ pc[r] = "run"
       /\ DeliveredPairs(r) = WrittenPairs(r)

\* C8: no two Write calls on the group sinks overlap.
C8_NoOverlappingSinkWrites == Cardinality(inSink) <= 1

\* C10: a runner that has left the list has had its pipeline closed and all
\* its bytes delivered to the group sinks.
C10_RemovedOnlyAfterFlush ==
    \A r \in 1..nAdded :
       (state # groupIsAdding /\ \A i \in 1..Len(runners) : runners[i] # r) =>
          /\ cq[r].chunks = <<>>
          /\ ~cfg.passthru => cq[r].state = foreground
          /\ \A d \in Dests :
                OnlyTo(DeliveredPairs(r), d) = OnlyTo(WrittenPairs(r), d)

\* C10, amended: a runner that has left the list has returned from its RunFunc
\* and Wait has received its completion; either closePrintRemove is still
\* closing its pipeline, as the statement that follows the removal, or the
\* pipeline is closed and all its bytes have been delivered.
C10_RemovedThenFlushed ==
    \A r \in 1..nAdded :
       (state # groupIsAdding /\ \A i \in 1..Len(runners) : runners[i] # r) =>
          /\ pc[r] = "exit"
          /\ canClose[r]
          /\ \/ mcur = r /\ mpc \in {"close", "drain"}
             \/ /\ cq[r].chunks = <<>>
                /\ ~cfg.passthru => cq[r].state = foreground
                /\ \A d \in Dests :
                      OnlyTo(DeliveredPairs(r), d) = OnlyTo(WrittenPairs(r), d)

\* A runner whose writes were all buffered has left the list and been flushed
\* while another runner is still in the list.
C10_Witness ==
    \E r \in 1..nAdded :
       /\ ~cfg.passthru /\ ~foregroundAllowed(cfg)
       /\ Flushed(r)
       /\ Len(runners) > 0
       /\ written[r] # <<>>
       /\ DeliveredPairs(r) # <<>>

\* The state a call expects: Wait groupIsRunning, Add and Run groupIsAdding.
Expected(op) == IF op = "Wait" THEN groupIsRunning ELSE groupIsAdding

\* C11: a call of Add, Run or Wait panics if and only if the Group is not in
\* the state the call expects (groupIsAdding for Add and Run, groupIsRunning
\* for Wait), on a zero-value Group too, and the panic leaves the state as it
\* was.
C11_MisusePanics ==
    called.op # "none" =>
       /\ called.panicked <=> called.before # Expected(called.op)
       /\ called.panicked => state = called.before

\* Wait has panicked because it was called a second time, after Wait had
\* returned for a group of two runners.
C11_Witness ==
    /\ called = [op |-> "Wait", before |-> groupIsDone, panicked |-> TRUE]
    /\ nAdded = 2

\* The place of a state in the life cycle (its groupState value).
Rank(s) ==
    CASE s = groupIsZero -> 0
      [] s = groupIsAdding -> 1
      [] s = groupIsRunning -> 2
      [] s = groupIsWaiting -> 3
      [] s = groupIsDone -> 4

\* C12: no step, of a successful or of a panicking call, moves the state of
\* the Group to an earlier one; the state is groupIsWaiting as long as the
\* caller is inside Wait and groupIsDone once Wait has returned.
C12_StateOnlyAdvances ==
    [][/\ Rank(state') >= Rank(state)
       /\ mpc' # "caller" => state' = groupIsWaiting
       /\ (mpc' = "caller" /\ called'.op = "Wait" /\ ~called'.panicked) =>
             state' = groupIsDone]_vars

\* After Wait has returned, calls of Add, Run and Wait have panicked and the
\* Group is still done.
C12_Witness ==
    /\ state = groupIsDone
    /\ called.panicked
    /\ called.op = "Add"
    /\ written[1] # <<>>

RECURSIVE LastValue(_, _, _, _)
\* The argument of the last of the first n options of os that is made by the
\* function name, or default if there is none.
LastValue(os, n, name, default) ==
    IF n = 0 THEN default
    ELSE IF os[n].name = name THEN os[n].value
    ELSE LastValue(os, n - 1, name, default)

\* The values the options os configure: for each setting the last value
\* given, or its default.
Configured(os) ==
    [stdout |-> LastValue(os, Len(os), "WithStdout", "os.Stdout"),
     stderr |-> LastValue(os, Len(os), "WithStderr", "os.Stderr"),
     outSep |-> LastValue(os, Len(os), "WithStdoutSeparator", <<>>),
     errSep |-> LastValue(os, Len(os), "WithStderrSeparator", <<>>),
     limitMemory |-> LastValue(os, Len(os), "LimitMemoryPerRunner", 0),
     limitRunners |-> LastValue(os, Len(os), "LimitActiveRunners", 0),
     orderRunners |-> LastValue(os, Len(os), "OrderRunners", TRUE),
     orderStderr |-> LastValue(os, Len(os), "OrderStderr", FALSE),
     passthru |-> LastValue(os, Len(os), "Passthru", FALSE)]

\* The values c violate a validity rule.
ViolatesRule(c) ==
    \/ c.limitMemory > 0 /\ c.limitRunners = 0
    \/ c.limitMemory > 0 /\ ~c.orderRunners
    \/ c.limitMemory > 0 /\ c.orderStderr
    \/ c.passthru /\ (c.limitMemory > 0 \/ c.orderRunners \/ c.orderStderr)

\* C13: when the final values of the options violate a validity rule,
\* NewGroup returns an error and no Group.
C13_ConflictsRejected ==
    (nerr # "pending" /\ ViolatesRule(Configured(opts))) =>
       nerr # "nil" /\ state = groupIsZero

\* NewGroup has rejected LimitMemoryPerRunner > 0 with LimitActiveRunners > 0
\* and OrderRunners(false).
C13_Witness ==
    /\ nerr = "conflict"
    /\ Configured(opts).limitMemory > 0
    /\ Configured(opts).limitRunners > 0
    /\ ~Configured(opts).orderRunners
    /\ ~Configured(opts).orderStderr
    /\ ~Configured(opts).passthru

\* C14: when the final values of the options violate no validity rule and
\* the sinks are not nil, NewGroup returns a nil error and a Group in
\* groupIsAdding, with no runner, that carries exactly the configured values
\* and the defaults for the others.
C14_OthersAccepted ==
    (/\ nerr # "pending"
     /\ ~ViolatesRule(Configured(opts))
     /\ Configured(opts).stdout # "nil"
     /\ Configured(opts).stderr # "nil") =>
       /\ nerr = "nil"
       /\ state = groupIsAdding
       /\ runners = <<>>
       /\ cfg = Configured(opts)

\* NewGroup has accepted options of which the first and the last set the same
\* value differently, so the last one counts.
C14_Witness ==
    /\ nerr = "nil"
    /\ state = groupIsAdding
    /\ Len(opts) = 3
    /\ opts[1].name = "Passthru" /\ opts[1].value
    /\ opts[3].name = "Passthru" /\ ~opts[3].value
    /\ opts[2].name = "WithStdout" /\ opts[2].value = "writer"

\* C15: when WithStdout or WithStderr was given a nil writer, NewGroup
\* returns an error.
C15_NilSinkRejected ==
    (/\ nerr # "pending"
     /\ \E i \in 1..Len(opts) :
           opts[i].name \in {"WithStdout", "WithStderr"}
           /\ opts[i].value = "nil") =>
       nerr # "nil"

\* Runner r is in the list of the group.
InList(r) == \E i \in 1..Len(runners) : runners[i] = r

\* The queue of runner r has started or completed a foreground transition.
WentForeground(r) == cq[r].state \in {draining, foreground}

\* C16 as stated: a queue starts a foreground transition only in a group
\* whose configuration satisfies foregroundAllowed.
C16_ForegroundOnlyIfAllowed ==
    \A r \in RunnerIds : WentForeground(r) => foregroundAllowed(cfg)

\* C16: in a group whose configuration does not satisfy foregroundAllowed, a
\* queue starts a foreground transition only when closePrintRemove closes its
\* runner: after the RunFunc has returned, Wait has received the completion
\* and the runner has left the list.  No queue of a runner still in the list
\* is in foreground there.
C16_ForegroundOnlyAtClose ==
    ~foregroundAllowed(cfg) =>
       \A r \in RunnerIds :
          WentForeground(r) =>
             /\ pc[r] = "exit"
             /\ canClose[r]
             /\ ~InList(r)
             /\ r \in {received[i] : i \in 1..Len(received)}

\* With OrderStderr, runner 1 was closed while runner 2 was still running: its
\* queue went to foreground to flush what it had buffered.
C16_Witness ==
    /\ cfg.orderStderr /\ cfg.orderRunners
    /\ cq[1].state = foreground
    /\ written[1] # <<>>
    /\ DeliveredPairs(1) # <<>>
    /\ runners = <<2>>
    /\ pc[2] = "run"

\* The number of separator writes sink d has received.
SepCount(d) ==
    Len(SelectSeq(log, LAMBDA e : e.kind = "sep" /\ e.sink = d))

\* The number of runners closePrintRemove has removed from the list.
Removed == nAdded - Len(runners)

\* closePrintRemove has removed a runner that left the list non-empty and has
\* not called Write for the separator of sink d yet.
SepPending(d) ==
    /\ Len(runners) > 0
    /\ \/ mpc = "close"
       \/ mpc = "drain" /\ mret \in {"outSep", "errSep"}
       \/ mpc = "outSep" /\ (d = toStderr \/ Main \notin inSink)
       \/ mpc = "errSep" /\ d = toStderr /\ Main \notin inSink

\* The first runner closePrintRemove closes: the first added with
\* OrderRunners, the first received without.
FirstClosed == IF cfg.orderRunners THEN 1 ELSE received[1]

\* C17: an empty separator is never written.  A non-empty separator has been
\* written to its sink once for each removed runner that left the list
\* non-empty, less the one closePrintRemove is about to write, the stdout
\* separator first: n-1 times when Wait has returned for n >= 1 runners.  Each
\* write carries the configured separator, comes after all the output of the
\* first closed runner, and, in a queued group, no runner has output on both
\* sides of it.
C17_SeparatorsBetweenRunners ==
    /\ \A d \in Dests :
          SepCount(d) =
             IF Sep(d) = <<>> \/ nAdded = 0 THEN 0
             ELSE (IF Removed < nAdded THEN Removed ELSE nAdded - 1)
                  - (IF SepPending(d) THEN 1 ELSE 0)
    /\ (state = groupIsDone /\ nAdded >= 1) =>
          \A d \in Dests : Sep(d) # <<>> => SepCount(d) = nAdded - 1
    /\ \A i \in 1..Len(log) :
          log[i].kind = "sep" =>
             /\ log[i].rnr = NoOne
             /\ log[i].data = Sep(log[i].sink)
             /\ \A k \in (i + 1)..Len(log) : log[k].rnr # FirstClosed
             /\ ~cfg.passthru =>
                   \A j \in 1..(i - 1), k \in (i + 1)..Len(log) :
                      log[j].rnr = NoOne \/ log[j].rnr # log[k].rnr

\* Wait has returned for two runners that wrote once each: the sinks received
\* the output of one, the stdout separator, the stderr separator and the output
\* of the other.
C17_Witness ==
    /\ state = groupIsDone
    /\ nAdded = 2
    /\ Len(log) = 4
    /\ log[1].rnr # NoOne /\ log[4].rnr # NoOne /\ log[1].rnr # log[4].rnr
    /\ log[2].kind = "sep" /\ log[2].sink = toStdout
    /\ log[3].kind = "sep" /\ log[3].sink = toStderr

\* The place of runner r in the order in which Wait received the completions.
ReceivedAt(r) == CHOOSE i \in 1..Len(received) : received[i] = r

\* C18: with OrderRunners(false) in a queued group, every runner Wait has
\* received is flushed, but for the last one while closePrintRemove is at
\* work on it; a sink receives output only of received runners, and what the
\* sinks have received is one block for each runner, the blocks in the order
\* in which Wait received the completions.
C18_CompletionOrder ==
    (~cfg.orderRunners /\ ~cfg.passthru) =>
       /\ \A i \in 1..Len(received) :
             \/ Flushed(received[i])
             \/ /\ i = Len(received)
                /\ mcur = received[i]
                /\ mpc \in {"remove", "close", "drain"}
       /\ \A j \in 1..Len(log) :
             log[j].rnr # NoOne =>
                /\ \E i \in 1..Len(received) : received[i] = log[j].rnr
                /\ \A k \in j..Len(log) :
                      log[k].rnr # NoOne =>
                         ReceivedAt(log[j].rnr) <= ReceivedAt(log[k].rnr)

\* Runner 2 completed before runner 1; both wrote to stdout and the sink has
\* the output of runner 2 before that of runner 1.
C18_Witness ==
    /\ ~cfg.orderRunners /\ ~cfg.passthru
    /\ state = groupIsDone
    /\ received = <<2, 1>>
    /\ Len(log) >= 2
    /\ log[1].rnr = 2 /\ log[1].sink = toStdout
    /\ log[Len(log)].rnr = 1 /\ log[Len(log)].sink = toStdout

\* C19: in Passthru mode no runner has a queue; whenever a RunFunc is not
\* inside a Write call the group sinks have received everything it wrote, in
\* written order, so a write made after another write has returned comes later
\* in the sink; while it is inside a Write call only the bytes of that one
\* write are missing, and it is inside the sink's Write only while it holds
\* the output mutex.
C19_PassthruUnbuffered ==
    cfg.passthru =>
       \A r \in RunnerIds :
          /\ cq[r] = nilQueue
          /\ IsPrefix(DeliveredPairs(r), WrittenPairs(r))
          /\ pc[r] # "down" =>
                pend[r] = <<>> /\ DeliveredPairs(r) = WrittenPairs(r)
          /\ pc[r] = "down" =>
                /\ IsPrefix(Pairs(SubSeq(written[r], 1, Len(written[r]) - 1)),
                            DeliveredPairs(r))
                /\ DeliveredPairs(r) \o SinkPairs(NotStarted(r))
                      = WrittenPairs(r)
          /\ r \in inSink => outputMu = r

\* In Passthru mode runner 2 wrote and its Write returned, then runner 1
\* wrote, both RunFuncs still running: the sink has them in that order.
C19_Witness ==
    /\ cfg.passthru
    /\ state = groupIsRunning
    /\ pc[1] = "run" /\ pc[2] = "run"
    /\ written[1] # <<>> /\ written[2] # <<>>
    /\ log[1].rnr = 2
    /\ log[Len(log)].rnr = 1

\* The runners whose RunFunc has started and not yet returned.
Active == {r \in RunnerIds : pc[r] \in {"run", "parked", "down"}}

\* C20: with LimitActiveRunners = k > 0 at most k RunFuncs have started and
\* not yet returned; with k = 0 there is a worker for every registered runner,
\* so nothing keeps a RunFunc from starting.
C20_ActiveLimit ==
    /\ cfg.limitRunners > 0 => Cardinality(Active) <= cfg.limitRunners
    /\ (cfg.limitRunners = 0 /\ state # groupIsAdding) =>
          /\ nWorkers = nAdded
          /\ \A r \in 1..nAdded :
                (pc[r] = "todo" /\ \A q \in 1..(r - 1) : pc[q] # "todo") =>
                   ENABLED worker(r)

\* With LimitActiveRunners(1) the RunFunc of runner 1 is running and has
\* written, and runner 2 waits for the worker.
C20_Witness ==
    /\ cfg.limitRunners = 1
    /\ nAdded = 2
    /\ pc[1] = "run"
    /\ written[1] # <<>>
    /\ pc[2] = "todo"
    /\ state = groupIsWaiting

\* The bytes the tagger has handed downstream, in order.
EmittedBytes == Flatten([i \in 1..Len(emitted) |-> emitted[i].data])

\* No downstream write has failed.
NoFailure == \A i \in 1..Len(emitted) : emitted[i].e = noError

RECURSIVE Inject(_, _, _)
\* The bytes of B from position i on with T inserted before the first byte
\* and after every newline that is followed by another byte.
Inject(T, B, i) ==
    IF i > Len(B) THEN <<>>
    ELSE (IF i = 1 \/ B[i - 1] = NL THEN T ELSE <<>>)
         \o <<B[i]>> \o Inject(T, B, i + 1)

RECURSIVE SumN(_)
\* The sum of the byte counts of the returns rs.
SumN(rs) == IF rs = <<>> THEN 0 ELSE Head(rs).n + SumN(Tail(rs))

\* C21: as long as no downstream write fails, the bytes emitted downstream
\* are the bytes B passed so far with the tag inserted at position 0 and
\* after every newline that is followed by another byte of B, however B was
\* split over the Write calls; every call returns the length of what it was
\* given and a nil error, so the returned counts add up to |B|.
C21_TagInjection ==
    NoFailure =>
       /\ EmittedBytes = Inject(tgr.tag, sent, 1)
       /\ \A c \in 1..Len(rets) :
             rets[c].n = Len(rets[c].p) /\ rets[c].err = noError
       /\ SumN(rets) = Len(sent)

\* "a\na" has gone through a tagger with a tag as "a", "" and "\na", with no
\* failure.
C21_Witness ==
    /\ tgr.tag # <<>>
    /\ NoFailure
    /\ unsent = <<>>
    /\ Len(rets) = 3
    /\ rets[1].p = <<97>>
    /\ rets[2].p = <<>>
    /\ rets[3].p = <<NL, 97>>

\* The downstream writes made during Write call number c, in order.
SubWrites(c) == SelectSeq(emitted, LAMBDA x : x.call = c)

\* The position in ws of the first downstream write that failed, Len(ws) + 1
\* if none did.
RECURSIVE FirstFailure(_, _)
FirstFailure(ws, i) ==
    IF i > Len(ws) THEN Len(ws) + 1
    ELSE IF ws[i].e # noError THEN i ELSE FirstFailure(ws, i + 1)

RECURSIVE InputBytes(_, _, _)
\* The input bytes that writes i..j of ws carried downstream successfully:
\* the counts returned for segments and newlines; a tag is not input.
InputBytes(ws, i, j) ==
    IF i > j THEN 0
    ELSE (IF ws[i].kind = "data" THEN ws[i].b ELSE 0)
         + InputBytes(ws, i + 1, j)

RECURSIVE Shortfall(_)
\* The input bytes the failing segment and newline writes of ws fell short.
Shortfall(ws) ==
    IF ws = <<>> THEN 0
    ELSE (IF Head(ws).kind = "data" THEN Len(Head(ws).data) - Head(ws).b
          ELSE 0)
         + Shortfall(Tail(ws))

\* C22 as stated: when a downstream write fails during a Write call, the
\* count the call returns is the number of input bytes processed up to the
\* first failing downstream write.
C22_CountBeforeError ==
    \A c \in 1..Len(rets) :
       FirstFailure(SubWrites(c), 1) <= Len(SubWrites(c)) =>
          rets[c].n = InputBytes(SubWrites(c), 1,
                                 FirstFailure(SubWrites(c), 1))

\* C22: the tagger goes on after a failed downstream write, and the count a
\* Write call returns is the sum of the counts returned by all its segment
\* and newline writes, those after the failure included: the length of the
\* input less what the failing segment and newline writes fell short, and
\* the whole length when only tag writes failed.
C22_CountOfAllDataWrites ==
    \A c \in 1..Len(rets) :
       /\ rets[c].n = InputBytes(SubWrites(c), 1, Len(SubWrites(c)))
       /\ rets[c].n = Len(rets[c].p) - Shortfall(SubWrites(c))
       /\ (\A i \in 1..Len(SubWrites(c)) :
              SubWrites(c)[i].e # noError => SubWrites(c)[i].kind = "tag")
          => rets[c].n = Len(rets[c].p)

\* Write("a\na") on a tagger with a tag: the newline write failed with no
\* byte written, the writes after it succeeded, and the call returned 2.
C22_Witness ==
    /\ Len(rets) = 1
    /\ rets[1].p = <<97, NL, 97>>
    /\ Len(emitted) = 5
    /\ emitted[3].data = <<NL>> /\ emitted[3].e # noError /\ emitted[3].b = 0
    /\ \A i \in {1, 2, 4, 5} : emitted[i].e = noError
    /\ rets[1].n = 2

\* C23: a Write call returns the error of the first of its downstream writes
\* that failed, in the order tag, segment, newline, ..., whatever later
\* writes returned, and nil exactly when none of them failed.
C23_FirstError ==
    \A c \in 1..Len(rets) :
       LET ws == SubWrites(c) IN
       /\ rets[c].err = IF FirstFailure(ws, 1) > Len(ws) THEN noError
                        ELSE ws[FirstFailure(ws, 1)].e
       /\ rets[c].err = noError <=>
             \A i \in 1..Len(ws) : ws[i].e = noError

\* During one Write call the tag write and the segment write after it both
\* failed, and the call returned the error of the tag write.
C23_Witness ==
    /\ Len(rets) = 1
    /\ Len(emitted) >= 2
    /\ emitted[1].kind = "tag" /\ emitted[1].e # noError
    /\ emitted[2].kind = "data" /\ emitted[2].e # noError
    /\ emitted[1].e # emitted[2].e
    /\ rets[1].err = emitted[1].e

\* The place of mutex m in the list order.
PlaceIn(order, m) == CHOOSE i \in 1..Len(order) : order[i] = m

\* The mutexes h were locked in the order of the list order, each once.
LockedInOrder(h, order) ==
    \A i, j \in 1..Len(h) :
       i < j => PlaceIn(order, h[i]) < PlaceIn(order, h[j])

\* C24 as stated: every thread locks in the order tagger mutex, queue core
\* mutex, output mutex.
C24_TaggerBeforeQueue ==
    \A t \in Threads :
       LockedInOrder(held[t], <<"tagger.mu", "cq", "outputMu">>)

\* C24: every thread locks in the order queue core mutex, tagger mutex,
\* output mutex: no thread locks a queue core mutex while it holds a tagger
\* mutex or the output mutex, nor a tagger mutex while it holds the output
\* mutex.  Only the thread in queue.foreground holds a queue core mutex
\* across a downstream write.
C24_QueueBeforeTagger ==
    /\ \A t \in Threads :
          /\ LockedInOrder(held[t], <<"cq", "tagger.mu", "outputMu">>)
          /\ outputMu = t <=> \E i \in 1..Len(held[t]) : held[t][i] = "outputMu"
    /\ \A r \in RunnerIds : held[r] # <<>> => held[r][1] # "cq"
    /\ (\E r \in RunnerIds : cq[r].locked) <=>
          (held[Main] # <<>> /\ held[Main][1] = "cq")

\* Main drains the queue of a runner with a tag and is inside the sink: it
\* holds the queue core mutex, the tagger mutex and the output mutex.
C24_Witness ==
    /\ held[Main] = <<"cq", "tagger.mu", "outputMu">>
    /\ Main \in inSink
    /\ log[Len(log)].kind = "tag"

\* The chunks or calls of cs for destination d.
ChunksTo(cs, d) == SelectSeq(cs, LAMBDA c : c.where = d)

\* The data of the chunks or calls cs, in order.
DataOf(cs) == [i \in 1..Len(cs) |-> cs[i].data]

\* A call of cs that failed is the last one of cs.
EndsAtFailure(cs) == \A i \in 1..Len(cs) : cs[i].e # noError => i = Len(cs)

\* The calls cs carry the chunks bs in order, all of them if no call failed
\* and those up to the failing call otherwise.
WrittenUpToFailure(cs, bs) ==
    /\ EndsAtFailure(cs)
    /\ IsPrefix(DataOf(cs), DataOf(bs))
    /\ (\A i \in 1..Len(cs) : cs[i].e = noError) => Len(cs) = Len(bs)

C26_WritersFailSeparately ==
    tret.op = "transfer" =>
       /\ \A d \in Dests :
             WrittenUpToFailure(ChunksTo(wtrs.calls, d),
                                ChunksTo(tret.chunks, d))
       /\ tret.err # noError <=>
             \E i \in 1..Len(wtrs.calls) : wtrs.calls[i].e # noError

\* The runners whose drain has seen a sink Write fail.
FailedRunners == {failed[i].runner : i \in 1..Len(failed)}

\* C27: a sink Write that fails during the flush of a runner is reported to
\* no one and does not stop the scheduler.  No call panics and the error is
\* forgotten when the drain is over; while Wait is running some goroutine can
\* always take a step that is not a failure; and when Wait has returned the
\* Group is done, the list is empty, every runner has completed and been
\* flushed, its buffer is empty, every runner whose own drain did not fail
\* has all its output at the sinks, and each non-empty separator has been
\* written n-1 times for n runners.
C27_DrainErrorsAbsorbed ==
    /\ ~called.panicked
    /\ mpc # "drain" => ~derr
    /\ state = groupIsWaiting => ENABLED Progress
    /\ state = groupIsDone =>
          /\ runners = <<>>
          /\ mpc = "caller"
          /\ \A r \in 1..nAdded :
                /\ pc[r] = "exit"
                /\ cq[r].chunks = <<>>
                /\ ~cfg.passthru => cq[r].state = foreground
                /\ r \notin FailedRunners =>
                      \A d \in Dests :
                         OnlyTo(DeliveredPairs(r), d)
                            = OnlyTo(WrittenPairs(r), d)
          /\ \A d \in Dests :
                (Sep(d) # <<>> /\ nAdded >= 1) => SepCount(d) = nAdded - 1

\* Wait has returned for two runners with separators: a sink Write failed in
\* the drain of the first runner closed, and after it the sinks received a
\* separator and output of the other runner.
C27_Witness ==
    /\ state = groupIsDone
    /\ nAdded = 2
    /\ Len(failed) = 1
    /\ \E i, j \in (failed[1].at + 1)..Len(log) :
          /\ log[i].kind = "sep"
          /\ log[j].rnr \in RunnerIds \ {failed[1].runner}

\* The RunFunc of runner r may call Write: it is running and the writes of
\* the group are not used up.
MayWrite(r) == pc[r] = "run" /\ SumLen(written, MaxRunners) < MaxWrites

\* A Write call of the RunFunc of runner r gets past the mutexes of the head
\* and the queue without waiting.
WriteStarts(r) ==
    \A d \in Dests :
       \A p \in Payloads(DataByte(r, Len(written[r]) + 1)) :
          ENABLED Write(r, d, p)

\* The Write call runner r is inside of waits for nothing but the close of
\* block in a blocked queue or the output mutex at the tail.
WaitsOnlyForBlockOrTail(r) ==
    /\ pc[r] = "parked" =>
          /\ ~cfg.passthru
          /\ cq[r].state \in {blocked, draining, foreground}
          /\ cq[r].state = blocked <=> ~cq[r].blockClosed /\ ~cq[r].locked
          /\ cq[r].blockClosed => ENABLED unblock(r)
    /\ pc[r] = "down" =>
          /\ cfg.passthru \/ cq[r].state = foreground
          /\ r \in inSink => ENABLED tailWriteReturn(r)
          /\ (r \notin inSink /\ outputMu = NoOne) => ENABLED tailWrite(r)

\* C28 as stated: a worker's write waits only in a blocked queue or for the
\* output mutex at the tail; a RunFunc that calls Write at any other time
\* gets into the pipeline without waiting.
C28_OnlyBlockedOrTail ==
    \A r \in 1..nAdded :
       /\ WaitsOnlyForBlockOrTail(r)
       /\ MayWrite(r) => WriteStarts(r)

\* C28: a worker's write waits in three situations only: parked in a blocked
\* queue until the foreground transition closes block, at the tail for the
\* output mutex, and at the entry of queue.Write for the mutex of the queue
\* core while Main holds it for the whole drain of that queue in
\* queue.foreground.  A RunFunc that calls Write at any other time gets into
\* the pipeline without waiting.
C28_BlockedTailOrDrain ==
    \A r \in 1..nAdded :
       /\ WaitsOnlyForBlockOrTail(r)
       /\ (MayWrite(r) /\ ~cq[r].locked) => WriteStarts(r)
       /\ cq[r].locked =>
             /\ mpc = "drain" /\ mcur = r
             /\ cq[r].state = draining
             /\ held[Main][1] = "cq"
             /\ \A d \in Dests :
                   \A p \in Payloads(DataByte(r, Len(written[r]) + 1)) :
                      ~ENABLED Write(r, d, p)

\* The RunFunc of runner 2 is running and may write while Main, in the drain
\* of runner 2's queue after the close of runner 1, is inside the Write of a
\* sink: a Write of runner 2 waits for the mutex of the queue core.
C28_Witness ==
    /\ MayWrite(2)
    /\ cq[2].locked
    /\ cq[2].state = draining
    /\ mpc = "drain" /\ mcur = 2
    /\ Main \in inSink

\* The place of a state of the queue core in the order the states are gone
\* through.
StateRank(st) ==
    CASE st \in {backgroundWithLimit, backgroundNoLimit} -> 1
      [] st = blocked -> 2
      [] st = draining -> 3
      [] st = foreground -> 4

\* A step that changes the state of the queue core is one of: a Write that
\* finds used + len(p) > limit in backgroundWithLimit and blocks; a call of
\* foreground in a state other than foreground, which makes it draining; the
\* end of the drain, which makes it foreground.
QueueTransition ==
    core'.state # core.state =>
       \/ /\ core.state = backgroundWithLimit
          /\ core'.state = blocked
          /\ \E d \in Dests :
                /\ qpc[d] = "idle" /\ qpc'[d] = "parked"
                /\ core.used + Len(qcur'[d].data) > core.limit
       \/ /\ core.state \in {backgroundWithLimit, backgroundNoLimit, blocked}
          /\ core'.state = draining
          /\ qfg.pc = "idle" /\ qfg'.pc = "drain"
       \/ /\ core.state = draining
          /\ core'.state = foreground
          /\ qfg.pc = "drain" /\ qfg'.pc = "idle"

\* C29: a queue core starts in backgroundWithLimit when limit > 0 and in
\* backgroundNoLimit when limit = 0.  Its state changes only from
\* backgroundWithLimit to blocked, on a write with used + len(p) > limit, and
\* from any state but foreground to draining and on to foreground, on a call
\* of foreground.  Foreground is never left, backgroundNoLimit never becomes
\* blocked, and a state that was left is never entered again.
C29_QueueStateMachine ==
    /\ core.state = IF core.limit > 0 THEN backgroundWithLimit
                    ELSE backgroundNoLimit
    /\ [][/\ QueueTransition
          /\ core'.state # core.state =>
                StateRank(core'.state) > StateRank(core.state)
          /\ core.state = foreground => core'.state = foreground
          /\ core.state = backgroundNoLimit => core'.state # blocked]_vars

\* A queue with a limit is in foreground and a writer that blocked it is
\* still parked: the core has gone from backgroundWithLimit to blocked, to
\* draining and to foreground.
C29_Witness ==
    /\ core.limit > 0
    /\ core.state = foreground
    /\ core.blockClosed
    /\ \E d \in Dests : qpc[d] = "parked"
    /\ \E i \in 1..Len(qlog) : qlog[i].by = "drain"

\* C30: no Write observes the draining state.  Whatever the interleaving of
\* writes to the stdout writer, writes to the stderr writer and calls of
\* foreground or close on one queue core, no Write reaches the panic of
\* queue.Write: the core is draining only while the mutex is locked by
\* foreground, and a Write inspects the state under the mutex.
C30_DrainingNeverObserved ==
    /\ \A d \in Dests : qpc[d] # "panic"
    /\ core.state = draining <=> core.locked
    /\ core.state = draining <=> qfg.pc = "drain"
    /\ core.state = draining =>
          \A d \in Dests :
             \A p \in Payloads(QueueByte(d, IssuedTo(d) + 1)) :
                ~ENABLED queueWriteCall(d, p)

\* The core is draining a buffer of two chunks, one written downstream so
\* far, while the goroutine of a writer is about to call Write.
C30_Witness ==
    /\ core.state = draining
    /\ Len(core.chunks) = 2
    /\ Len(qlog) = 1
    /\ Len(qwritten) < MaxQueueWrites
    /\ \E d \in Dests : qpc[d] = "idle"

\* The step is a call of Write on the queue writer for d.
WriteCalled(d) ==
    /\ Len(qwritten') = Len(qwritten) + 1
    /\ qwritten'[Len(qwritten')].where = d

\* C31: once the queue core is blocked nothing more is buffered.  A Write
\* called on either writer while the core is blocked leaves the buffer and
\* used as they are and parks, whatever its length; a parked writer leaves
\* only when the core is in foreground, and its bytes are then written to
\* the downstream writer directly, by the Write call itself.
C31_NoBufferingOnceBlocked ==
    [][/\ core.state = blocked =>
             /\ core'.chunks = core.chunks /\ core'.used = core.used
             /\ \A d \in Dests :
                   WriteCalled(d) =>
                      /\ qpc'[d] = "parked"
                      /\ qcur'[d] = qwritten'[Len(qwritten')]
       /\ \A d \in Dests :
             /\ qpc[d] = "parked" =>
                   /\ qpc'[d] \in {"parked", "down"}
                   /\ qcur'[d] = qcur[d]
                   /\ qpc'[d] = "down" => core.state = foreground
             /\ (qpc[d] = "down" /\ qcur[d] # qcur'[d]) =>
                   /\ qpc'[d] = "idle"
                   /\ qlog' = Append(qlog, [where |-> d, data |-> qcur[d].data,
                                            by |-> "Write"])]_vars

\* The bytes of a write that parked in a blocked queue although they would
\* have fitted under the limit have been written downstream by the Write
\* call itself, after the chunk buffered before it was drained.
C31_Witness ==
    /\ core.limit = 2
    /\ Len(qwritten) >= 3
    /\ Len(qwritten[1].data) = 1
    /\ Len(qwritten[2].data) = 2
    /\ Len(qwritten[3].data) = 1
    /\ Len(qlog) = 2
    /\ qlog[1] = [where |-> qwritten[1].where, data |-> qwritten[1].data,
                  by |-> "drain"]
    /\ qlog[2] = [where |-> qwritten[3].where, data |-> qwritten[3].data,
                  by |-> "Write"]

\* The number of Write calls in the log cs that carry the write w.
Carried(cs, w) ==
    Len(SelectSeq(cs, LAMBDA c : c.where = w.where /\ c.data = w.data))

\* The step is a call of foreground or close on the queue under test.
ForegroundCalled == qfg'.calls = qfg.calls + 1

\* C32: the foreground transition is idempotent.  However many times
\* foreground or close is called on the queue core, no call panics on the
\* close of a closed channel, block is closed by the first call and by no
\* other, every write is sent downstream at most once and, when the writers
\* are idle and the core is in foreground, exactly once; a call that finds
\* the core in foreground changes nothing.
C32_ForegroundIdempotent ==
    /\ [](/\ qfg.pc # "panic"
          /\ \A i \in 1..Len(qwritten) :
                /\ Carried(qlog, qwritten[i]) <= 1
                /\ core.state # draining =>
                      Carried(qlog, qwritten[i])
                         + Carried(core.chunks, qwritten[i]) <= 1
                /\ (core.state = foreground
                    /\ \A d \in Dests : qpc[d] = "idle") =>
                      Carried(qlog, qwritten[i]) = 1)
    /\ [][/\ (ForegroundCalled /\ core.state = foreground) =>
                /\ UNCHANGED <<core, qpc, qcur, qlog, qwritten>>
                /\ qfg'.pc = "idle"
          /\ core.blockClosed => core'.blockClosed
          /\ (~core.blockClosed /\ core'.blockClosed) =>
                core.state = draining /\ core'.state = foreground]_vars

\* foreground has been called three times, by the switch and by the close of
\* either writer, on a core that had buffered a chunk: the chunk was drained
\* by the first call.
C32_Witness ==
    /\ qfg.calls = 3
    /\ qfg.pc = "idle"
    /\ core.state = foreground
    /\ core.blockClosed
    /\ \E i \in 1..Len(qlog) : qlog[i].by = "drain"

\* The writes buffered in the queue core or sent downstream so far are all
\* the writes made but those a writer is still inside of.
AllDrained ==
    \A i \in 1..Len(qwritten) :
       \/ Carried(qlog, qwritten[i]) = 1
       \/ \E d \in Dests : qpc[d] # "idle" /\ qcur[d] = qwritten[i]

\* C33: a writer parked in a blocked queue holds no mutex: the mutex of the
\* core is locked only while foreground is draining.  The writer stays
\* parked until block is closed, and the close releases every parked writer,
\* of stdout and of stderr.  A released writer finds the core in foreground
\* with its buffer empty and every buffered chunk sent downstream.
C33_ReleaseBroadcast ==
    /\ (\E d \in Dests : qpc[d] = "parked") =>
          (core.locked <=> qfg.pc = "drain")
    /\ \A d \in Dests :
          /\ qpc[d] = "parked" => (ENABLED queueUnblock(d) <=> core.blockClosed)
          /\ qpc[d] = "down" =>
                /\ core.state = foreground
                /\ core.blockClosed
                /\ core.chunks = <<>>
                /\ AllDrained

\* Both writers are parked, one chunk was buffered before and has been
\* drained, and block is closed: either writer can go on.
C33_Witness ==
    /\ \A d \in Dests : qpc[d] = "parked"
    /\ core.blockClosed
    /\ Len(qlog) = 1
    /\ qlog[1].by = "drain"

\* C35: the memory budget is one counter shared by both destinations.  While
\* the core is in backgroundWithLimit, used is the number of bytes in the
\* buffered chunks of stdout and stderr together and is at most limit; a
\* Write of p is buffered, adding len(p) to used, exactly when
\* used + len(p) <= limit, and otherwise blocks the queue and parks.
C35_SharedBudget ==
    /\ [](core.state = backgroundWithLimit =>
             /\ core.used = BufferedBytes(core.chunks)
             /\ core.used <= core.limit)
    /\ [][\A d \in Dests :
             (core.state = backgroundWithLimit /\ WriteCalled(d)) =>
                LET p == qwritten'[Len(qwritten')].data IN
                IF core.used + Len(p) <= core.limit
                THEN /\ core'.state = backgroundWithLimit
                     /\ core'.chunks = Append(core.chunks,
                                              [where |-> d, data |-> p])
                     /\ core'.used = core.used + Len(p)
                     /\ qpc'[d] = "idle"
                ELSE /\ core'.state = blocked
                     /\ core'.chunks = core.chunks
                     /\ core'.used = core.used
                     /\ qpc'[d] = "parked"]_vars

\* A stdout chunk and a stderr chunk of one byte each fill a budget of two
\* bytes exactly, the queue is still in backgroundWithLimit, and a writer is
\* about to write.
C35_Witness ==
    /\ core.state = backgroundWithLimit
    /\ core.limit = 2
    /\ core.used = 2
    /\ Len(core.chunks) = 2
    /\ core.chunks[1].where # core.chunks[2].where
    /\ Len(qwritten) < MaxQueueWrites

\* Runner r has been handed to a worker: its RunFunc has started.
Started(r) == r <= nAdded /\ pc[r] # "todo"

\* No Write call on a group sink carries bytes of runner r.
NothingDelivered(r) == \A i \in 1..Len(log) : log[i].rnr # r

\* C34: a runner leaves the list, and its pipeline is closed, only after its
\* RunFunc has returned and Wait has received its completion.  With
\* OrderRunners(true) the list is always the last runners added, in Add
\* order; Wait removes the front runner only if it can be closed and blocks
\* for the next completion only when the front runner cannot be closed; a
\* runner behind the front one stays in the background with nothing of it in
\* a sink, completed or not.
C34_ContiguousFront ==
    /\ \A r \in 1..nAdded :
          ~InList(r) =>
             /\ canClose[r]
             /\ pc[r] = "exit"
             /\ \E i \in 1..Len(received) : received[i] = r
    /\ mpc \in {"remove", "close"} => canClose[mcur] /\ pc[mcur] = "exit"
    /\ cfg.orderRunners =>
          /\ \A i \in 1..Len(runners) :
                runners[i] = nAdded - Len(runners) + i
          /\ mpc = "remove" => mcur = Head(runners)
          /\ (mpc = "loop" /\ runners # <<>>) => ~canClose[Head(runners)]
          /\ \A i \in 2..Len(runners) :
                /\ ~WentForeground(runners[i])
                /\ NothingDelivered(runners[i])

\* With OrderRunners(true) runner 2 has written and completed and Wait has
\* received it, while runner 1 has not completed: Wait blocks again with
\* both runners in the list and the output of runner 2 in its buffer.
C34_Witness ==
    /\ cfg.orderRunners
    /\ runners = <<1, 2>>
    /\ canClose[2] /\ ~canClose[1]
    /\ mpc = "loop"
    /\ cq[2].chunks # <<>>
    /\ NothingDelivered(2)

\* C36: while the queue of a runner is in backgroundWithLimit,
\* backgroundNoLimit or blocked no Write call on a group sink carries bytes of
\* that runner.  A queue is draining only while Main runs its foreground
\* transition, called by switchToForeground for the front runner of a group
\* with foregroundAllowed or by close for a runner that has completed and
\* left the list; a runner in the list with its queue in foreground is the
\* front runner of a group with foregroundAllowed.
C36_BackgroundIsSilent ==
    \A r \in 1..nAdded :
       /\ cq[r].state \in {backgroundWithLimit, backgroundNoLimit, blocked}
             => NothingDelivered(r)
       /\ cq[r].state = draining =>
             /\ mpc = "drain" /\ mcur = r
             /\ IF InList(r)
                THEN /\ foregroundAllowed(cfg)
                     /\ Head(runners) = r
                     /\ mret = "loop"
                ELSE canClose[r] /\ pc[r] = "exit"
       /\ (cq[r].state = foreground /\ InList(r)) =>
             foregroundAllowed(cfg) /\ Head(runners) = r

\* Runner 1 writes to the sinks while runner 2, which has written and
\* returned, has its output in the buffer of its queue.
C36_Witness ==
    /\ InList(1) /\ InList(2)
    /\ cq[2].state = backgroundNoLimit /\ cq[2].chunks # <<>>
    /\ pc[2] = "send"
    /\ pc[1] = "down" /\ 1 \in inSink
    /\ ~NothingDelivered(1)

\* C37: with foregroundAllowed, from Run on and until Wait is called the
\* queue of runner 1 is in foreground, and whenever Wait is at the receive
\* from the completed channel the queue of the front runner is in foreground
\* and unlocked.  Runner 1 never finds the memory limit exceeded and is
\* never parked, and between its Write calls the sinks have all it wrote; a
\* write parked on a queue in foreground can go on.
C37_FrontInForeground ==
    foregroundAllowed(cfg) =>
       /\ (state = groupIsRunning /\ nAdded >= 1) => cq[1].state = foreground
       /\ (state = groupIsWaiting /\ mpc = "loop" /\ runners # <<>>) =>
             /\ cq[Head(runners)].state = foreground
             /\ ~cq[Head(runners)].locked
       /\ overQuota[1] = 0
       /\ pc[1] # "parked"
       /\ pc[1] = "run" => DeliveredPairs(1) = WrittenPairs(1)
       /\ \A r \in 1..nAdded :
             (cq[r].state = foreground /\ pc[r] = "parked") =>
                ENABLED unblock(r)

\* With LimitMemoryPerRunner(1) runner 1 has written two bytes in one Write
\* call, which has returned with the bytes in the sink, while Wait blocks and
\* runner 2 is parked over the limit.
C37_Witness ==
    /\ foregroundAllowed(cfg)
    /\ cfg.limitMemory = 1
    /\ state = groupIsWaiting /\ mpc = "loop"
    /\ runners = <<1, 2>>
    /\ pc[1] = "run"
    /\ \E i \in 1..Len(written[1]) : Len(written[1][i].data) = 2
    /\ pc[2] = "parked"

\* C38: a call of Add, Run or Wait that panics leaves the state of the
\* Group, its runner list, its configuration and everything else of the
\* Group as they were, and no step takes a Group out of groupIsDone or
\* changes its list or its configuration.
C38_PanicChangesNothing ==
    [][/\ (called' # called /\ called'.panicked) =>
             /\ called'.before = state
             /\ UNCHANGED <<state, runners, cfg, nAdded, nWorkers, tag,
                            canClose, cq, pc, mpc, mcur, log, written,
                            received>>
       /\ state = groupIsDone =>
             /\ state' = groupIsDone
             /\ UNCHANGED <<runners, cfg, nAdded, log>>]_vars

\* Run has panicked on a Group in groupIsDone after Add had panicked there
\* or Wait had returned, and the Group is still in groupIsDone.
C38_Witness ==
    /\ state = groupIsDone
    /\ called = [op |-> "Run", before |-> groupIsDone, panicked |-> TRUE]
    /\ nAdded = 2
    /\ log # <<>>

\* C39: the configuration of a Group with LimitMemoryPerRunner > 0 satisfies
\* foregroundAllowed and has LimitActiveRunners > 0.  A queue in
\* backgroundWithLimit or blocked belongs to such a Group, and to a runner in
\* the list or to the runner Wait is about to close; when that runner is the
\* front one Wait is not blocked but about to close it or to switch it to
\* foreground.
C39_LimitNeedsForeground ==
    /\ cfg.limitMemory > 0 =>
          /\ cfg.orderRunners /\ ~cfg.orderStderr /\ ~cfg.passthru
          /\ foregroundAllowed(cfg)
          /\ cfg.limitRunners > 0
    /\ \A r \in 1..nAdded :
          cq[r].state \in {backgroundWithLimit, blocked} =>
             /\ cfg.limitMemory > 0
             /\ foregroundAllowed(cfg)
             /\ InList(r) \/ (mcur = r /\ mpc = "close")
             /\ (InList(r) /\ Head(runners) = r) =>
                   mpc \notin {"caller", "loop"}

\* Runner 2 is parked on its blocked queue while runner 1, in foreground, is
\* inside a Write call on a sink.
C39_Witness ==
    /\ cq[2].state = blocked /\ pc[2] = "parked"
    /\ cq[1].state = foreground
    /\ pc[1] = "down" /\ 1 \in inSink
    /\ runners = <<1, 2>>

\* C40: the RunFuncs start in Add order; a worker goroutine is busy with its
\* runner until Wait has received the completion, so with
\* LimitActiveRunners = k > 0 runner k + j has started only if Wait has
\* received at least j completions, and as long as Wait has not been called
\* nothing has been received and at most k RunFuncs have started.
C40_PoolOrder ==
    /\ \A r \in 1..nAdded : Started(r) => \A q \in 1..(r - 1) : Started(q)
    /\ state # groupIsAdding => Cardinality(Busy) <= nWorkers
    /\ \A r \in 1..nAdded :
          (Started(r) /\ \A i \in 1..Len(received) : received[i] # r) =>
             r \in Busy
    /\ cfg.limitRunners > 0 =>
          /\ \A r \in 1..nAdded :
                (Started(r) /\ r > cfg.limitRunners) =>
                   Len(received) >= r - cfg.limitRunners
          /\ state \in {groupIsAdding, groupIsRunning} =>
                /\ received = <<>>
                /\ Cardinality({r \in 1..nAdded : Started(r)})
                      <= cfg.limitRunners

\* With LimitActiveRunners(1) the RunFunc of runner 2 has started once Wait
\* has received the completion of runner 1, before Wait has removed runner 1
\* from the list.
C40_Witness ==
    /\ cfg.limitRunners = 1
    /\ received = <<1>>
    /\ Started(2)
    /\ mpc = "remove"
    /\ InList(1)

====
